---- MODULE Spec2Model ----
(***************************************************************************)
(* A model of the project indexer (scripts/project_index.py and            *)
(* scripts/index_utils.py): the per-file engine selector, the built-in     *)
(* signature extractors' result bundles, the DSL escape rule, and          *)
(* build_index with its dependency-graph and call-graph passes.            *)
(*                                                                         *)
(* Text is modelled as a sequence of tokens.  A token is either one of the *)
(* separator characters "/", ".", "\\", ":" or a maximal run of other      *)
(* characters (an identifier such as "sibling" or "py").  The path         *)
(* "a/b.py" is <<"a", "/", "b", ".", "py">>.  Python's startswith, split,  *)
(* join, replace and concatenation act on these sequences exactly as they  *)
(* act on the characters, because no identifier token holds a separator.   *)
(***************************************************************************)
EXTENDS Integers, Sequences, FiniteSets, TLC

VARIABLES
    \* ---- build_index (project_index.py) ----
    iterable,           \* the enumerated entries, in iteration order
    idx,                \* position of the next entry of the for loop
    file_count,         \* local file_count
    dir_count,          \* local dir_count
    skipped_count,      \* local skipped_count
    files,              \* index['files']: path -> file_info
    stats,              \* index['stats']
    documentation_map,  \* index['documentation_map'] (the set of its keys)
    dependency_graph,   \* index['dependency_graph']: path -> list
    call_graph,         \* local call_graph: "path:name" -> calls
    called_by_graph,    \* local called_by_graph: callee -> list of callers
    pc,                 \* where build_index stands
    \* ---- one call of a function of the indexer ----
    call,               \* the function called and its arguments
    returned,           \* what the call gave: a value, an exception, or nothing yet
    \* ---- the external tools ----
    tools,              \* the tools installed and the child process that runs
    \* ---- the locals of a call that runs step by step ----
    frame,              \* the locals of the loop the call is in
    \* ---- the files the hooks read and write ----
    disk                \* the index file and the project on disk

buildVars == <<iterable, idx, file_count, dir_count, skipped_count, files, stats,
               documentation_map, dependency_graph, call_graph, called_by_graph, pc>>

callVars == <<call, returned, tools, frame, disk>>

vars == <<buildVars, callVars>>

None == "None"

\* What the variable returned holds: nothing yet, the value returned, or the
\* exception that left the call.
NotReturned == [pending |-> TRUE]

Returns(v) == [value |-> v]

Raises(e) == [raised |-> e]

HasReturned == "value" \in DOMAIN returned

HasRaised == "raised" \in DOMAIN returned

\* What the variable tools holds when no external tool takes part: none is
\* installed and no child process runs.
NoTools == [installed |-> {}, child |-> "none"]

\* What the variable frame holds when no call runs step by step, and what the
\* variable disk holds when no hook takes part.
NoFrame == [running |-> FALSE]

NoDisk == [present |-> FALSE]

(***************************************************************************)
(* Token-level string operations.                                          *)
(***************************************************************************)
StartsWith(s, p) == Len(s) >= Len(p) /\ SubSeq(s, 1, Len(p)) = p

DropFirst(s, n) == SubSeq(s, n + 1, Len(s))

RECURSIVE SplitFrom(_, _, _, _)
SplitFrom(s, sep, i, cur) ==
    IF i > Len(s) THEN <<cur>>
    ELSE IF s[i] = sep THEN <<cur>> \o SplitFrom(s, sep, i + 1, <<>>)
    ELSE SplitFrom(s, sep, i + 1, Append(cur, s[i]))

\* str.split(sep): the pieces between separators, empty pieces kept.
Split(s, sep) == SplitFrom(s, sep, 1, <<>>)

RECURSIVE Join(_, _)
\* sep.join(parts)
Join(parts, sep) ==
    IF Len(parts) = 0 THEN <<>>
    ELSE IF Len(parts) = 1 THEN parts[1]
    ELSE parts[1] \o <<sep>> \o Join(Tail(parts), sep)

\* str.replace(old, new) for one-character old and new.
Replace(s, old, new) == [i \in 1..Len(s) |-> IF s[i] = old THEN new ELSE s[i]]

DotDot == <<".", ".">>

(***************************************************************************)
(* pathlib.PurePosixPath for relative paths: a path is the sequence of its *)
(* parts.                                                                  *)
(***************************************************************************)
\* Path(s).parts: empty and "." segments are dropped, ".." is kept.
PathParts(s) == SelectSeq(Split(s, "/"), LAMBDA seg : seg # <<>> /\ seg # <<".">>)

\* Path.parent: Path('.').parent is Path('.').
PathParent(p) == IF Len(p) = 0 THEN p ELSE SubSeq(p, 1, Len(p) - 1)

\* Path / str
PathJoin(p, s) == p \o PathParts(s)

\* str(Path)
PathStr(p) == IF Len(p) = 0 THEN <<".">> ELSE Join(p, "/")

RECURSIVE LastIndexOf(_, _, _)
LastIndexOf(s, c, i) ==
    IF i = 0 THEN 0 ELSE IF s[i] = c THEN i ELSE LastIndexOf(s, c, i - 1)

\* Path.suffix: the last part from its last dot, unless the dot leads or ends it.
Suffix(s) ==
    LET parts == PathParts(s)
        name  == IF Len(parts) = 0 THEN <<>> ELSE parts[Len(parts)]
        i     == LastIndexOf(name, ".", Len(name))
    IN  IF 1 < i /\ i < Len(name) THEN SubSeq(name, i, Len(name)) ELSE <<>>

\* Path.stem
Stem(s) ==
    LET parts == PathParts(s)
        name  == IF Len(parts) = 0 THEN <<>> ELSE parts[Len(parts)]
        i     == LastIndexOf(name, ".", Len(name))
    IN  IF 1 < i /\ i < Len(name) THEN SubSeq(name, 1, i - 1) ELSE name

(***************************************************************************)
(* Dictionaries are functions; d.get(k) is truthy when k is a key with a   *)
(* non-empty value.                                                        *)
(***************************************************************************)
Has(d, k) == k \in DOMAIN d

\* d[k] = v
Put(d, k, v) == (k :> v) @@ d

\* d.update(u)
Update(d, u) == u @@ d

EmptyDict == <<>>

\* bool(d.get(k)) for a list or dict value
Truthy(d, k) == Has(d, k) /\ DOMAIN d[k] # {}

\* d[k] = d.get(k, 0) + 1
Incr(d, k) == Put(d, k, (IF Has(d, k) THEN d[k] ELSE 0) + 1)

(***************************************************************************)
(* index_utils.py tables.                                                  *)
(***************************************************************************)
PARSEABLE_LANGUAGES ==
    (<<".", "py">> :> "python") @@ (<<".", "js">> :> "javascript") @@
    (<<".", "ts">> :> "typescript") @@ (<<".", "jsx">> :> "javascript") @@
    (<<".", "tsx">> :> "typescript") @@ (<<".", "sh">> :> "shell") @@
    (<<".", "bash">> :> "shell")

MARKDOWN_EXTENSIONS == {<<".", "md">>, <<".", "markdown">>, <<".", "rst">>}

get_language_name(extension) ==
    IF extension \in DOMAIN PARSEABLE_LANGUAGES THEN PARSEABLE_LANGUAGES[extension]
    ELSE IF Len(extension) > 1 THEN extension[2] ELSE "unknown"

\* infer_file_purpose, on the stems the model's files carry.
infer_file_purpose(path) ==
    LET name == Stem(path)
    IN  IF name \in {<<"index">>, <<"main">>, <<"app">>} THEN "Application entry point"
        ELSE None


IGNORE_DIRS == {<<".", "git">>, <<"__pycache__">>, <<".", "venv">>, <<"venv">>, <<"env">>,
                <<".", "idea">>, <<".", "vscode">>, <<".", "DS_Store">>}

\* The extensions of CODE_EXTENSIONS the model's files carry.
CODE_EXTENSIONS == DOMAIN PARSEABLE_LANGUAGES \cup {<<".", "go">>, <<".", "sol">>, <<".", "json">>}

(***************************************************************************)
(* Function records.  A record is either a bare signature string, written  *)
(* [str |-> sig], or a dict with a 'signature' key and optional 'calls',   *)
(* 'doc', 'decorators' and 'called_by' keys.                               *)
(***************************************************************************)
IsDict(r) == Has(r, "signature")

BareSig(sig) == [str |-> sig]

(***************************************************************************)
(* Bounds of the model.                                                    *)
(***************************************************************************)
\* MAX_FILES of project_index.py (10000 there), scaled to the model's trees.
MAX_FILES == 2
\* The most entries one enumeration of the model holds.
MaxEntries == 3

(***************************************************************************)
(* The trees build_index runs on.  An entry of the enumeration is a path   *)
(* with what the file system and the collaborators answer for it:          *)
(*   kind     "dir", "file" or "special" (neither)                         *)
(*   content  for a markdown file: whether extract_markdown_structure      *)
(*            finds sections; for a code file: what reading it and         *)
(*            extract_signatures_auto give, a bundle or an error           *)
(***************************************************************************)
ReadError    == [error |-> "read"]
ExtractError == [error |-> "extract"]
IsError(o) == Has(o, "error")

Id(name) == <<name>>

CallsRec(callees) == [signature |-> "()", calls |-> callees]
DocRec == [signature |-> "()", doc |-> "d"]

FnBundle(fns) == [functions |-> fns, classes |-> EmptyDict, call_graph |-> EmptyDict]
ClsBundle(cls) == [functions |-> EmptyDict, classes |-> cls, call_graph |-> EmptyDict]

\* Extraction results that differ in their functions, methods and calls.
CallBundles ==
    { [functions |-> EmptyDict, classes |-> EmptyDict, call_graph |-> EmptyDict,
       constants |-> (Id("LIMIT") :> "number")],
      FnBundle(Id("run") :> CallsRec(<<Id("helper")>>)),
      FnBundle(Id("helper") :> BareSig("()")),
      FnBundle((Id("helper") :> BareSig("()")) @@ (Id("run") :> CallsRec(<<Id("helper")>>))),
      FnBundle((Id("helper") :> CallsRec(<<Id("run")>>)) @@
               (Id("run") :> CallsRec(<<Id("helper"), Id("run")>>))),
      ClsBundle(Id("K") :> [methods |-> (Id("helper") :> BareSig("()")) @@
                                        (Id("m") :> CallsRec(<<Id("helper")>>)) @@
                                        (Id("run") :> DocRec)]) }

ImportsBundle(imps) ==
    [functions |-> (Id("f") :> BareSig("()")), classes |-> EmptyDict,
     call_graph |-> EmptyDict, imports |-> imps]

RelSibling == <<".", "/", "sibling">>

\* Extraction results that differ in their imports.
ImportBundles ==
    { [functions |-> EmptyDict, classes |-> EmptyDict, call_graph |-> EmptyDict,
       imports |-> <<RelSibling>>],
      ImportsBundle(<<<<"os">>, RelSibling>>),
      ImportsBundle(<<<<".", "/", "b">>, <<".", "/", "missing">>>>),
      ImportsBundle(<<<<".", "/", "sibling", ".", "py">>>>),
      ImportsBundle(<<<<".", ".", "/", "main">>, <<"react">>>>),
      ImportsBundle(<<<<".", ".", "/", "a", "/", "sibling">>, <<".", "sibling">>>>),
      ImportsBundle(<<<<".", ".", "/", "a", "/", ".", ".", "/", "sibling">>>>) }

\* Extraction results of the files of a tree that has a backslash in a name.
NameBundles ==
    { ImportsBundle(<<<<".", "/", "x", "\\", "y">>, <<"os">>>>),
      ImportsBundle(<<<<".", "/", "main">>>>),
      ImportsBundle(<<<<".", "missing">>>>) }

\* The catalogue, in the order sorted() gives the paths.
Catalogue ==
    << [path |-> <<"README", ".", "md">>, kind |-> "file"],
       [path |-> <<"a">>, kind |-> "dir"],
       [path |-> <<"a", "/", "b", ".", "py">>, kind |-> "file"],
       [path |-> <<"a", "/", "sibling", ".", "js">>, kind |-> "file"],
       [path |-> <<"a", "/", "sibling", ".", "py">>, kind |-> "file"],
       [path |-> <<"main", ".", "py">>, kind |-> "file"],
       [path |-> <<"venv", "/", "x", ".", "py">>, kind |-> "file"],
       [path |-> <<"x", "\\", "y", ".", "py">>, kind |-> "file"] >>

IsMarkdown(path) == Suffix(path) \in MARKDOWN_EXTENSIONS
IsCode(path) == Suffix(path) \in CODE_EXTENSIONS

\* A file in one of the IGNORE_DIRS directories (should_index_file, lines 1887-1889).
InIgnoredDir(path) == \E i \in DOMAIN PathParts(path) : PathParts(path)[i] \in IGNORE_DIRS

\* What the environment may answer for catalogue entry i: for a markdown file
\* whether it has sections, for a code file one of the outcomes.
Contents(i, outcomes) ==
    LET e == Catalogue[i]
    IN  IF e.kind = "file" /\ IsMarkdown(e.path) THEN {[sections |-> b] : b \in BOOLEAN}
        ELSE IF e.kind = "file" /\ IsCode(e.path) /\ ~InIgnoredDir(e.path) THEN outcomes
        ELSE {EmptyDict}

RECURSIVE Ordered(_)
\* The members of a set of numbers, ascending.
Ordered(S) ==
    IF S = {} THEN <<>>
    ELSE LET m == CHOOSE x \in S : \A y \in S : x <= y
         IN  <<m>> \o Ordered(S \ {m})

Entry(i, c) == [path |-> Catalogue[i].path, kind |-> Catalogue[i].kind, content |-> c]

RECURSIVE Fill(_, _)
\* The enumerations of the catalogue entries is, with every content.
Fill(is, outcomes) ==
    IF Len(is) = 0 THEN {<<>>}
    ELSE {<<Entry(is[1], c)>> \o rest : c \in Contents(is[1], outcomes),
                                        rest \in Fill(Tail(is), outcomes)}

\* Every enumeration of at most MaxEntries of the catalogue entries is.
IterablesOver(is, outcomes) ==
    UNION { Fill(Ordered(S), outcomes) :
            S \in { T \in SUBSET is : Cardinality(T) <= MaxEntries } }

\* The catalogue entries whose names are made of letters, dots and slashes.
PlainNames ==
    {i \in 1..Len(Catalogue) : \A k \in DOMAIN Catalogue[i].path : Catalogue[i].path[k] # "\\"}

\* Every enumeration of at most MaxEntries catalogue entries with plain names.
Iterables(outcomes) == IterablesOver(PlainNames, outcomes)

(***************************************************************************)
(* Iteration order.  A Python dict iterates in insertion order; the model's *)
(* files define their functions, classes and methods in the order of       *)
(* NameOrder, and index['files'] is filled in the order of the enumeration. *)
(***************************************************************************)
NameOrder == <<"K", "LIMIT", "f", "helper", "m", "run">>

RankOf(name) == CHOOSE i \in 1..Len(NameOrder) : NameOrder[i] = name[1]

KeysInOrder(d) ==
    LET ranks == Ordered({RankOf(k) : k \in DOMAIN d})
    IN  [i \in 1..Len(ranks) |-> CHOOSE k \in DOMAIN d : RankOf(k) = ranks[i]]

RECURSIVE Concat(_)
Concat(ss) == IF Len(ss) = 0 THEN <<>> ELSE ss[1] \o Concat(Tail(ss))

Range(s) == {s[i] : i \in DOMAIN s}

Get(d, k, default) == IF Has(d, k) THEN d[k] ELSE default

(***************************************************************************)
(* build_index, lines 177-260: one iteration of the loop over the          *)
(* enumeration.                                                            *)
(***************************************************************************)
\* A variant of InLoop that goes on past MAX_FILES files.
InLoopPastCap == pc = "files" /\ idx <= Len(iterable)

\* lines 177-180: the loop goes on while files are left and the cap is not reached.
InLoop == pc = "files" /\ idx <= Len(iterable) /\ file_count < MAX_FILES

\* should_index_file: a code or markdown suffix, in no IGNORE_DIRS directory.
\* The trees of the model hold no file that Git or a .gitignore pattern ignores.
should_index_file(e) ==
    /\ IsCode(e.path) \/ IsMarkdown(e.path)
    /\ ~InIgnoredDir(e.path)

\* lines 178-180: the cap on indexed files ends the loop with a warning.
StopAtMaxFiles ==
    /\ pc = "files" /\ idx <= Len(iterable) /\ file_count >= MAX_FILES
    /\ pc' = "totals"
    /\ UNCHANGED <<iterable, idx, file_count, dir_count, skipped_count, files, stats,
                   documentation_map, dependency_graph, call_graph, called_by_graph>>
    /\ UNCHANGED callVars

\* The enumeration is exhausted.
LoopDone ==
    /\ pc = "files" /\ idx > Len(iterable)
    /\ pc' = "totals"
    /\ UNCHANGED <<iterable, idx, file_count, dir_count, skipped_count, files, stats,
                   documentation_map, dependency_graph, call_graph, called_by_graph>>
    /\ UNCHANGED callVars

\* lines 182-199: a directory is counted unless a part of it is in IGNORE_DIRS
\* (the walk without a Git file list); what is neither directory nor file is
\* passed over.
VisitDirectory ==
    /\ InLoop
    /\ iterable[idx].kind # "file"
    /\ dir_count' = IF /\ iterable[idx].kind = "dir"
                       /\ ~InIgnoredDir(iterable[idx].path)
                    THEN dir_count + 1 ELSE dir_count
    /\ idx' = idx + 1
    /\ UNCHANGED <<iterable, file_count, skipped_count, files, stats, documentation_map,
                   dependency_graph, call_graph, called_by_graph, pc>>
    /\ UNCHANGED callVars

\* lines 201-203
SkipFile ==
    /\ InLoop
    /\ iterable[idx].kind = "file"
    /\ ~should_index_file(iterable[idx])
    /\ skipped_count' = skipped_count + 1
    /\ idx' = idx + 1
    /\ UNCHANGED <<iterable, file_count, dir_count, files, stats, documentation_map,
                   dependency_graph, call_graph, called_by_graph, pc>>
    /\ UNCHANGED callVars

\* lines 214-220: a markdown file goes to the documentation map when it has
\* sections or hints, and is not counted as a file.
IndexMarkdown ==
    /\ InLoop
    /\ iterable[idx].kind = "file"
    /\ should_index_file(iterable[idx])
    /\ IsMarkdown(iterable[idx].path)
    /\ IF iterable[idx].content.sections
       THEN /\ documentation_map' = documentation_map \cup {iterable[idx].path}
            /\ stats' = [stats EXCEPT !.markdown_files = @ + 1]
       ELSE UNCHANGED <<documentation_map, stats>>
    /\ idx' = idx + 1
    /\ UNCHANGED <<iterable, file_count, dir_count, skipped_count, files,
                   dependency_graph, call_graph, called_by_graph, pc>>
    /\ UNCHANGED callVars

\* lines 225-234: the base info of every code file.
BaseInfo(path) ==
    LET language == get_language_name(Suffix(path))
        file_purpose == infer_file_purpose(path)
    IN  IF file_purpose # None
        THEN [language |-> language, parsed |-> FALSE, purpose |-> file_purpose]
        ELSE [language |-> language, parsed |-> FALSE]

\* lines 240: the extraction counts as parsed.
HasSignatures(extracted) == Truthy(extracted, "functions") \/ Truthy(extracted, "classes")

\* A variant of FileInfo that merges the extracted bundle before it looks for
\* signatures.
FileInfoUpdatesFirst(path, outcome) ==
    IF IsError(outcome) THEN BaseInfo(path)
    ELSE IF HasSignatures(outcome)
         THEN Put(Update(BaseInfo(path), outcome), "parsed", TRUE)
         ELSE Update(BaseInfo(path), outcome)

\* A variant of FileInfo that goes on with the info dict of the file before
\* when reading or extracting raises.
FileInfoKeepsPrevious(path, outcome) ==
    IF ~IsError(outcome) /\ HasSignatures(outcome)
    THEN Put(Update(BaseInfo(path), outcome), "parsed", TRUE)
    ELSE IF files = EmptyDict THEN BaseInfo(path)
         ELSE Update(files[CHOOSE p \in DOMAIN files : TRUE], BaseInfo(path))

\* lines 236-252: the entry of a code file, given what reading and extracting
\* it gave.  An exception of either leaves the base info.
FileInfo(path, outcome) ==
    IF ~IsError(outcome) /\ HasSignatures(outcome)
    THEN Put(Update(BaseInfo(path), outcome), "parsed", TRUE)
    ELSE BaseInfo(path)

\* A variant of CountFile that counts nothing for a file that raised.
CountFileSkipsFailures(st, path, outcome) ==
    LET language == get_language_name(Suffix(path))
        lang_key == Get(PARSEABLE_LANGUAGES, Suffix(path), language)
    IN  IF IsError(outcome) THEN st
        ELSE IF HasSignatures(outcome)
             THEN [st EXCEPT !.fully_parsed = Incr(@, lang_key)]
             ELSE [st EXCEPT !.listed_only = Incr(@, language)]

\* A variant of CountFile that lists every file, the parsed ones too.
CountFileListsParsedToo(st, path, outcome) ==
    LET language == get_language_name(Suffix(path))
        lang_key == Get(PARSEABLE_LANGUAGES, Suffix(path), language)
        listed == [st EXCEPT !.listed_only = Incr(@, language)]
    IN  IF ~IsError(outcome) /\ HasSignatures(outcome)
        THEN [listed EXCEPT !.fully_parsed = Incr(@, lang_key)]
        ELSE listed

\* lines 243-252: the statistics of a code file.
CountFile(st, path, outcome) ==
    LET language == get_language_name(Suffix(path))
        lang_key == Get(PARSEABLE_LANGUAGES, Suffix(path), language)
    IN  IF ~IsError(outcome) /\ HasSignatures(outcome)
        THEN [st EXCEPT !.fully_parsed = Incr(@, lang_key)]
        ELSE [st EXCEPT !.listed_only = Incr(@, language)]

\* lines 222-256
IndexCodeFile ==
    /\ InLoop
    /\ iterable[idx].kind = "file"
    /\ should_index_file(iterable[idx])
    /\ ~IsMarkdown(iterable[idx].path)
    /\ files' = Put(files, iterable[idx].path, FileInfo(iterable[idx].path, iterable[idx].content))
    /\ stats' = CountFile(stats, iterable[idx].path, iterable[idx].content)
    /\ file_count' = file_count + 1
    /\ idx' = idx + 1
    /\ UNCHANGED <<iterable, dir_count, skipped_count, documentation_map,
                   dependency_graph, call_graph, called_by_graph, pc>>
    /\ UNCHANGED callVars

\* lines 272-276
RecordTotals ==
    /\ pc = "totals"
    /\ stats' = [stats EXCEPT !.total_files = file_count, !.total_directories = dir_count]
    /\ pc' = "deps"
    /\ UNCHANGED <<iterable, idx, file_count, dir_count, skipped_count, files,
                   documentation_map, dependency_graph, call_graph, called_by_graph>>
    /\ UNCHANGED callVars


(***************************************************************************)
(* build_index, lines 278-323: the dependency graph.                       *)
(***************************************************************************)
\* The extensions tried, in order (line 309).
CandidateExts == << <<".", "py">>, <<".", "js">>, <<".", "ts">>, <<".", "jsx">>,
                    <<".", "tsx">>, <<>> >>

RECURSIVE ParentN(_, _)
\* lines 300-301
ParentN(dir, n) == IF n = 0 THEN dir ELSE ParentN(PathParent(dir), n - 1)

\* lines 292-306: the stem a relative import stands for.
ResolvedStem(file_path, imp) ==
    LET file_dir == PathParent(PathParts(file_path))
    IN  IF StartsWith(imp, <<".", "/">>)
        THEN PathStr(PathJoin(file_dir, DropFirst(imp, 2)))
        ELSE IF StartsWith(imp, <<".", ".", "/">>)
        THEN LET parts == Split(imp, "/")
                 up_levels == Len(SelectSeq(parts, LAMBDA q : q = DotDot))
                 target_dir == ParentN(file_dir, up_levels)
                 remaining == Join(SelectSeq(parts, LAMBDA q : q # DotDot), "/")
             IN  IF remaining # <<>> THEN PathStr(PathJoin(target_dir, remaining))
                 ELSE PathStr(target_dir)
        ELSE PathStr(file_dir)

RECURSIVE FirstCandidate(_, _, _)
\* lines 309-313: the first candidate that is an indexed path, if any.
FirstCandidate(resolved, keys, i) ==
    IF i > Len(CandidateExts) THEN <<>>
    ELSE LET potential_file == resolved \o CandidateExts[i]
         IN  IF potential_file \in keys \/ Replace(potential_file, "\\", "/") \in keys
             THEN <<Replace(potential_file, "\\", "/")>>
             ELSE FirstCandidate(resolved, keys, i + 1)

\* A variant of ResolveImport that keeps a relative import it cannot resolve.
ResolveImportKeepsUnresolved(file_path, imp, keys) ==
    IF StartsWith(imp, <<".">>)
    THEN IF FirstCandidate(ResolvedStem(file_path, imp), keys, 1) = <<>>
         THEN <<imp>>
         ELSE FirstCandidate(ResolvedStem(file_path, imp), keys, 1)
    ELSE <<imp>>

\* lines 288-316: what one import adds to the dependencies of its file.
ResolveImport(file_path, imp, keys) ==
    IF StartsWith(imp, <<".">>)
    THEN FirstCandidate(ResolvedStem(file_path, imp), keys, 1)
    ELSE <<imp>>

\* lines 283-316
Dependencies(file_path, file_info, keys) ==
    IF Truthy(file_info, "imports")
    THEN Concat([i \in 1..Len(file_info.imports) |->
                    ResolveImport(file_path, file_info.imports[i], keys)])
    ELSE <<>>

\* lines 278-323
BuildDependencyGraph ==
    /\ pc = "deps"
    /\ dependency_graph' =
          [p \in {q \in DOMAIN files : Dependencies(q, files[q], DOMAIN files) # <<>>} |->
              Dependencies(p, files[p], DOMAIN files)]
    /\ pc' = "calls"
    /\ UNCHANGED <<iterable, idx, file_count, dir_count, skipped_count, files, stats,
                   documentation_map, call_graph, called_by_graph>>
    /\ UNCHANGED callVars

(***************************************************************************)
(* build_index, lines 325-363: the forward call map and its inverse.       *)
(***************************************************************************)
\* index['files'] in insertion order.
FileOrder ==
    SelectSeq([i \in 1..Len(iterable) |-> iterable[i].path], LAMBDA q : q \in DOMAIN files)

\* lines 336-347: the callers among the functions of one file.
FunctionEdges(file_path, file_info) ==
    IF ~Has(file_info, "functions") THEN <<>>
    ELSE LET names == KeysInOrder(file_info.functions)
             with == SelectSeq(names, LAMBDA n : /\ IsDict(file_info.functions[n])
                                                 /\ Has(file_info.functions[n], "calls"))
         IN  [i \in 1..Len(with) |->
                 [key |-> file_path \o <<":">> \o with[i],
                  caller |-> with[i],
                  calls |-> file_info.functions[with[i]].calls]]

\* lines 353-363: the callers among the methods of one class.
ClassEdges(file_path, class_name, class_data) ==
    IF ~Has(class_data, "methods") THEN <<>>
    ELSE LET names == KeysInOrder(class_data.methods)
             with == SelectSeq(names, LAMBDA n : /\ IsDict(class_data.methods[n])
                                                 /\ Has(class_data.methods[n], "calls"))
         IN  [i \in 1..Len(with) |->
                 [key |-> file_path \o <<":">> \o class_name \o <<".">> \o with[i],
                  caller |-> class_name \o <<".">> \o with[i],
                  calls |-> class_data.methods[with[i]].calls]]

\* lines 350-363
MethodEdges(file_path, file_info) ==
    IF ~Has(file_info, "classes") THEN <<>>
    ELSE LET names == KeysInOrder(file_info.classes)
         IN  Concat([i \in 1..Len(names) |->
                        ClassEdges(file_path, names[i], file_info.classes[names[i]])])

\* lines 331-363: every caller, in the order the loops meet them.
CallEdges ==
    Concat([i \in 1..Len(FileOrder) |->
               FunctionEdges(FileOrder[i], files[FileOrder[i]])
               \o MethodEdges(FileOrder[i], files[FileOrder[i]])])

\* lines 344-347 and 360-363: one append per callee of each caller.
CallersOf(called, edges) ==
    Concat([i \in 1..Len(edges) |->
               [j \in 1..Len(SelectSeq(edges[i].calls, LAMBDA c : c = called)) |->
                   edges[i].caller]])

\* lines 325-363
BuildCallGraph ==
    /\ pc = "calls"
    /\ call_graph' = [k \in {CallEdges[i].key : i \in 1..Len(CallEdges)} |->
                         CallEdges[CHOOSE i \in 1..Len(CallEdges) : CallEdges[i].key = k].calls]
    /\ called_by_graph' =
          [c \in UNION {Range(CallEdges[i].calls) : i \in 1..Len(CallEdges)} |->
              CallersOf(c, CallEdges)]
    /\ pc' = "called_by"
    /\ UNCHANGED <<iterable, idx, file_count, dir_count, skipped_count, files, stats,
                   documentation_map, dependency_graph>>
    /\ UNCHANGED callVars


(***************************************************************************)
(* build_index, lines 365-397: called_by is written back to the records.   *)
(***************************************************************************)
\* The orders in which a set of caller names may be listed.
Orders(S) == {p \in [1..Cardinality(S) -> S] : \A i, j \in DOMAIN p : p[i] = p[j] => i = j}

\* list(set(callers)): each caller once, in the order the set iterates.
ListOfSet(callers, order) == SelectSeq(order, LAMBDA c : c \in Range(callers))

\* A variant of FunctionWithCallers that leaves a bare signature as it is.
FunctionWithCallersDictOnly(func_name, func_data, cbg) ==
    IF Has(cbg, func_name) /\ IsDict(func_data)
    THEN Put(func_data, "called_by", cbg[func_name])
    ELSE func_data

\* lines 372-380
FunctionWithCallers(func_name, func_data, cbg) ==
    IF Has(cbg, func_name)
    THEN IF IsDict(func_data)
         THEN Put(func_data, "called_by", cbg[func_name])
         ELSE [signature |-> func_data.str, called_by |-> cbg[func_name]]
    ELSE func_data

\* A variant of MethodWithCallers that leaves a bare signature as it is.
MethodWithCallersDictOnly(class_name, method_name, method_data, cbg, order) ==
    LET full_name == class_name \o <<".">> \o method_name
        callers == Get(cbg, method_name, <<>>) \o Get(cbg, full_name, <<>>)
    IN  IF (Has(cbg, method_name) \/ Has(cbg, full_name)) /\ callers # <<>> /\ IsDict(method_data)
        THEN Put(method_data, "called_by", ListOfSet(callers, order))
        ELSE method_data

\* lines 386-397
MethodWithCallers(class_name, method_name, method_data, cbg, order) ==
    LET full_name == class_name \o <<".">> \o method_name
        callers == Get(cbg, method_name, <<>>) \o Get(cbg, full_name, <<>>)
    IN  IF (Has(cbg, method_name) \/ Has(cbg, full_name)) /\ callers # <<>>
        THEN IF IsDict(method_data)
             THEN Put(method_data, "called_by", ListOfSet(callers, order))
             ELSE [signature |-> method_data.str, called_by |-> ListOfSet(callers, order)]
        ELSE method_data

\* lines 383-397
ClassWithCallers(class_name, class_data, cbg, order) ==
    IF Has(class_data, "methods")
    THEN Put(class_data, "methods",
             [m \in DOMAIN class_data.methods |->
                 MethodWithCallers(class_name, m, class_data.methods[m], cbg, order)])
    ELSE class_data

\* lines 366-397, for one file
FileWithCallers(file_info, cbg, order) ==
    LET withFunctions ==
            IF Has(file_info, "functions")
            THEN Put(file_info, "functions",
                     [f \in DOMAIN file_info.functions |->
                         FunctionWithCallers(f, file_info.functions[f], cbg)])
            ELSE file_info
    IN  IF Has(withFunctions, "classes")
        THEN Put(withFunctions, "classes",
                 [c \in DOMAIN withFunctions.classes |->
                     ClassWithCallers(c, withFunctions.classes[c], cbg, order)])
        ELSE withFunctions

\* lines 365-403
AddCalledBy ==
    /\ pc = "called_by"
    /\ \E order \in Orders(UNION {Range(called_by_graph[c]) : c \in DOMAIN called_by_graph}) :
          files' = [p \in DOMAIN files |-> FileWithCallers(files[p], called_by_graph, order)]
    /\ pc' = "done"
    /\ UNCHANGED <<iterable, idx, file_count, dir_count, skipped_count, stats,
                   documentation_map, dependency_graph, call_graph, called_by_graph>>
    /\ UNCHANGED callVars

(***************************************************************************)
(* The specifications of build_index.                                      *)
(***************************************************************************)
\* lines 118-166
InitIndex ==
    /\ idx = 1
    /\ file_count = 0
    /\ dir_count = 0
    /\ skipped_count = 0
    /\ files = EmptyDict
    /\ stats = [total_files |-> 0, total_directories |-> 0, fully_parsed |-> EmptyDict,
                listed_only |-> EmptyDict, markdown_files |-> 0]
    /\ documentation_map = {}
    /\ dependency_graph = EmptyDict
    /\ call_graph = EmptyDict
    /\ called_by_graph = EmptyDict
    /\ pc = "files"
    /\ call = [fn |-> "build_index"]
    /\ returned = NotReturned
    /\ tools = NoTools
    /\ frame = NoFrame
    /\ disk = NoDisk

Init == iterable \in Iterables(CallBundles \cup {ReadError, ExtractError}) /\ InitIndex

InitDeps == iterable \in Iterables(ImportBundles) /\ InitIndex

InitNames == iterable \in IterablesOver(1..Len(Catalogue), NameBundles) /\ InitIndex

Next ==
    \/ StopAtMaxFiles
    \/ LoopDone
    \/ VisitDirectory
    \/ SkipFile
    \/ IndexMarkdown
    \/ IndexCodeFile
    \/ RecordTotals
    \/ BuildDependencyGraph
    \/ BuildCallGraph
    \/ AddCalledBy

\* build_index over trees whose files differ in functions, methods and calls.
Spec == Init /\ [][Next]_vars

\* build_index over trees whose files differ in imports.
SpecDeps == InitDeps /\ [][Next]_vars

\* build_index over trees with any file name of the catalogue.
SpecNames == InitNames /\ [][Next]_vars


(***************************************************************************)
(* Properties of build_index.                                              *)
(***************************************************************************)
Done == pc = "done"

\* The function and method records of the index: name is the plain name,
\* caller the identifier the record has as a caller (lines 347 and 363).
FunctionRecords(p) ==
    IF Has(files[p], "functions")
    THEN {[file |-> p, name |-> f, caller |-> f, rec |-> files[p].functions[f]] :
             f \in DOMAIN files[p].functions}
    ELSE {}

MethodRecords(p) ==
    IF Has(files[p], "classes")
    THEN UNION {{[file |-> p, name |-> m, caller |-> c \o <<".">> \o m,
                  rec |-> files[p].classes[c].methods[m]] :
                    m \in DOMAIN files[p].classes[c].methods} :
                c \in DOMAIN files[p].classes}
    ELSE {}

AllRecords == UNION {FunctionRecords(p) \cup MethodRecords(p) : p \in DOMAIN files}

CallsOf(rec) == IF IsDict(rec) /\ Has(rec, "calls") THEN Range(rec.calls) ELSE {}

CalledByList(rec) == IF IsDict(rec) /\ Has(rec, "called_by") THEN rec.called_by ELSE <<>>

NoDuplicates(s) == \A i, j \in DOMAIN s : s[i] = s[j] => i = j

\* The entry of the enumeration a path of the index came from.
EntryOf(p) == iterable[CHOOSE i \in DOMAIN iterable : iterable[i].path = p]

DirPrefix(p) ==
    LET i == LastIndexOf(p, "/", Len(p)) IN SubSeq(p, 1, i)

DependenciesOf(p) == Get(dependency_graph, p, <<>>)

AfterDeps == pc \in {"calls", "called_by", "done"}

VisitedCode ==
    {i \in 1..(idx - 1) : /\ iterable[i].kind = "file"
                          /\ should_index_file(iterable[i])
                          /\ ~IsMarkdown(iterable[i].path)}

Failed(i) == IsError(iterable[i].content)

BundleFields == {"imports", "functions", "classes", "constants", "variables", "type_aliases",
                 "enums", "interfaces", "exports", "sources", "call_graph"}

\* C6: a code file whose reading or extraction fails is still an entry of
\* index['files'], with parsed = False, and is counted as listed only; every
\* file after it is processed as well (the loop ends only at the end of the
\* enumeration or at the cap of MAX_FILES).
C6_FailuresAreListedOnly ==
    /\ \A i \in VisitedCode :
          /\ iterable[i].path \in DOMAIN files
          /\ Failed(i) => /\ files[iterable[i].path].parsed = FALSE
                          /\ DOMAIN files[iterable[i].path] \cap BundleFields = {}
    /\ \A lang \in {get_language_name(Suffix(iterable[i].path)) : i \in VisitedCode} :
          Get(stats.listed_only, lang, 0) =
             Cardinality({i \in VisitedCode :
                             /\ get_language_name(Suffix(iterable[i].path)) = lang
                             /\ ~files[iterable[i].path].parsed})
    /\ pc # "files" => idx > Len(iterable) \/ file_count >= MAX_FILES

\* C6, witness: the build ended, a file failed, and a later file was parsed.
C6_Witness ==
    /\ Done
    /\ \E i \in VisitedCode : \E j \in VisitedCode :
          i < j /\ Failed(i) /\ files[iterable[j].path].parsed

\* C7: every entry is either parsed = True with every field of the extracted
\* bundle, as extracted (the graph pass only adds called_by to records), or
\* parsed = False with no bundle field at all; and parsed = True holds exactly
\* when the entry has a non-empty functions or classes map.
C7_NoHalfPopulatedEntry ==
    \A p \in DOMAIN files :
       LET info == files[p]
           extracted == EntryOf(p).content
       IN  /\ info.parsed =>
                /\ ~IsError(extracted)
                /\ \A k \in DOMAIN extracted :
                      /\ Has(info, k)
                      /\ (~Done \/ k \notin {"functions", "classes"}) => info[k] = extracted[k]
                      /\ DOMAIN info[k] = DOMAIN extracted[k]
           /\ ~info.parsed => DOMAIN info \cap BundleFields = {}
           /\ info.parsed <=> (Truthy(info, "functions") \/ Truthy(info, "classes"))

\* C7, witness: a parsed entry beside the entry of a file whose extraction
\* gave constants but no function or class.
C7_Witness ==
    /\ Done
    /\ \E p \in DOMAIN files : \E q \in DOMAIN files :
          /\ files[p].parsed
          /\ ~files[q].parsed /\ Truthy(EntryOf(q).content, "constants")

(***************************************************************************)
(* The rest of the model calls one function of the indexer on arguments    *)
(* drawn from bounded sets: build_index stands idle meanwhile.             *)
(***************************************************************************)
IdleBuild ==
    /\ iterable = <<>>
    /\ idx = 1
    /\ file_count = 0
    /\ dir_count = 0
    /\ skipped_count = 0
    /\ files = EmptyDict
    /\ stats = [total_files |-> 0, total_directories |-> 0, fully_parsed |-> EmptyDict,
                listed_only |-> EmptyDict, markdown_files |-> 0]
    /\ documentation_map = {}
    /\ dependency_graph = EmptyDict
    /\ call_graph = EmptyDict
    /\ called_by_graph = EmptyDict
    /\ pc = "idle"
    /\ returned = NotReturned
    /\ tools = NoTools

InitIdle == IdleBuild /\ frame = NoFrame /\ disk = NoDisk

Pending(fn) == call.fn = fn /\ returned = NotReturned

(***************************************************************************)
(* _dsl_escape (project_index.py).  A text is a sequence of characters.    *)
(***************************************************************************)
MaxLen == 3

\* The argument of a call: Python's None, or a str.
NoneValue == [none |-> TRUE]

Str(t) == [str |-> t]

IsNone(value) == "none" \in DOMAIN value

EscapeChars == {"a", " ", "\n", "\t", "\r"}

RECURSIVE TextsUpTo(_)
TextsUpTo(n) ==
    IF n = 0 THEN {<<>>}
    ELSE LET shorter == TextsUpTo(n - 1)
         IN  shorter \cup {Append(t, c) : t \in {u \in shorter : Len(u) = n - 1},
                                          c \in EscapeChars}

\* A variant of _dsl_escape that replaces newlines only.
_dsl_escape_newlines(value) ==
    IF IsNone(value) THEN <<>>
    ELSE Replace(value.str, "\n", " ")

\* lines 409-413: str(value).replace('\n', ' ').replace('\t', ' '), and ''
\* for None.
_dsl_escape(value) ==
    IF IsNone(value) THEN <<>>
    ELSE Replace(Replace(value.str, "\n", " "), "\t", " ")

InitEscape ==
    /\ InitIdle
    /\ call \in {[fn |-> "_dsl_escape", value |-> NoneValue]}
                \cup {[fn |-> "_dsl_escape", value |-> Str(t)] : t \in TextsUpTo(MaxLen)}

Call_dsl_escape ==
    /\ Pending("_dsl_escape")
    /\ returned' = Returns(_dsl_escape(call.value))
    /\ UNCHANGED <<buildVars, call, tools, frame, disk>>

\* The escaped line is escaped again.
Call_dsl_escape_again ==
    /\ call.fn = "_dsl_escape"
    /\ HasReturned
    /\ call.value # Str(returned.value)
    /\ call' = [call EXCEPT !.value = Str(returned.value)]
    /\ returned' = Returns(_dsl_escape(Str(returned.value)))
    /\ UNCHANGED <<buildVars, tools, frame, disk>>

NextEscape == Call_dsl_escape \/ Call_dsl_escape_again

SpecEscape == InitEscape /\ [][NextEscape]_vars

ControlChars == {"\n", "\t", "\r"}

TextOf(value) == IF IsNone(value) THEN <<>> ELSE value.str

\* A text with every maximal run of newlines and tabs made one space.
RECURSIVE Collapsed(_)
Collapsed(t) ==
    IF t = <<>> THEN <<>>
    ELSE IF Head(t) \in {"\n", "\t"}
         THEN IF Len(t) > 1 /\ t[2] \in {"\n", "\t"}
              THEN Collapsed(Tail(t))
              ELSE <<" ">> \o Collapsed(Tail(t))
         ELSE <<Head(t)>> \o Collapsed(Tail(t))

\* C10, as stated: the escaped text holds no control character, it is the
\* text with every run of newlines and tabs collapsed to one space and every
\* other character unaltered, and escaping it again changes nothing.
C10_EscapeCollapses ==
    (call.fn = "_dsl_escape" /\ HasReturned) =>
        /\ \A i \in DOMAIN returned.value : returned.value[i] \notin ControlChars
        /\ returned.value = Collapsed(TextOf(call.value))
        /\ _dsl_escape(Str(returned.value)) = returned.value

\* C10, amended: the escaped text holds no newline and no tab; it has the
\* length of the text, with a space wherever the text has a newline or a tab
\* and the text's own character (a carriage return included) everywhere else;
\* None gives the empty text; and escaping the result again changes nothing.
C10_EscapeReplaces ==
    (call.fn = "_dsl_escape" /\ HasReturned) =>
        LET text == TextOf(call.value)
            out == returned.value
        IN  /\ \A i \in DOMAIN out : out[i] \notin {"\n", "\t"}
            /\ Len(out) = Len(text)
            /\ \A i \in DOMAIN text :
                  out[i] = IF text[i] \in {"\n", "\t"} THEN " " ELSE text[i]
            /\ _dsl_escape(Str(out)) = out

\* C10, witness: a text with a newline next to a tab has been escaped.
C10_Witness ==
    /\ call.fn = "_dsl_escape" /\ HasReturned /\ ~IsNone(call.value)
    /\ \E i \in 1..(Len(call.value.str) - 1) :
          call.value.str[i] = "\n" /\ call.value.str[i + 1] = "\t"

(***************************************************************************)
(* The built-in extractors (index_utils.py).  A content is the sequence of *)
(* its lines, and a line is a record of what the extractor's patterns see  *)
(* in it: its kind, its indentation and the names it holds.                *)
(***************************************************************************)
\* Identifiers in the order Python's sorted() gives a list of str (by code
\* point: capitals, then "_", then small letters).
IdentifierOrder ==
    <<"A", "ABC", "B", "BLUE", "Base", "Color", "Enum", "HOME", "K", "LIMIT", "PATH",
      "RED", "ValueError", "__repr__", "_cache", "abc", "abstractmethod", "cached",
      "catch", "count", "f", "helper", "inner", "lib", "m", "main", "os", "print", "run",
      "setup", "util">>

\* sorted(list(names)) for a set of one-token names
Sorted(names) ==
    LET order == [i \in DOMAIN IdentifierOrder |-> Id(IdentifierOrder[i])]
    IN  SelectSeq(order, LAMBDA n : n \in names)

\* del d[k]
Del(d, k) == [x \in DOMAIN d \ {k} |-> d[x]]

\* line 1 of a text that is one line; the lines of Python content
Blank == [kind |-> "blank", indent |-> 0]

Comment(n) == [kind |-> "comment", indent |-> n]

Docstring(n, text) == [kind |-> "docstring", indent |-> n, text |-> text]

FromImport(n, module) == [kind |-> "from_import", indent |-> n, module |-> module]

Import(n, items) == [kind |-> "import", indent |-> n, items |-> items]

Decorator(n, name) == [kind |-> "decorator", indent |-> n, name |-> name]

TypeAlias(n, name, value) == [kind |-> "type_alias", indent |-> n, name |-> name, value |-> value]

Const(n, name, value) == [kind |-> "const", indent |-> n, name |-> name, value |-> value]

EnumMember(n, name) == [kind |-> "enum_member", indent |-> n, name |-> name]

Annotated(n, name, has_value) ==
    [kind |-> "annotated", indent |-> n, name |-> name, has_value |-> has_value]

Class(n, name, bases) == [kind |-> "class", indent |-> n, name |-> name, bases |-> bases]

Def(n, name, is_async, params, return_type) ==
    [kind |-> "def", indent |-> n, name |-> name, is_async |-> is_async,
     params |-> params, return_type |-> return_type]

\* The first line of a def whose parameter list goes on in the lines below,
\* and a line that ends such a list, like "    b) -> int:".
DefOpen(n, name, is_async) ==
    [kind |-> "def_open", indent |-> n, name |-> name, is_async |-> is_async]

SigEnd(n, params, return_type) ==
    [kind |-> "sig_end", indent |-> n, params |-> params, return_type |-> return_type]

\* A statement; calls are the names followed by "(", in the order of the
\* text, each with whether a "." stands before it.
Stmt(n, calls) == [kind |-> "stmt", indent |-> n, calls |-> calls]

Bare(name) == [name |-> name, dotted |-> FALSE]

Dotted(name) == [name |-> name, dotted |-> TRUE]

\* lines 82-89
PY_EXCLUDE_KEYWORDS ==
    {Id(k) : k \in {"if", "elif", "while", "for", "with", "except", "def", "class",
                    "return", "yield", "raise", "assert", "print", "len", "str",
                    "int", "float", "bool", "list", "dict", "set", "tuple", "type",
                    "isinstance", "issubclass", "super", "range", "enumerate", "zip",
                    "map", "filter", "sorted", "reversed", "open", "input", "eval"}}

\* What call_pattern and method_pattern find in a line of a body: the calls
\* of a statement, the name of a def, the name of a class that has bases.
CallSites(line) ==
    CASE line.kind = "stmt" -> line.calls
      [] line.kind = "def" -> <<Bare(line.name)>>
      [] line.kind = "class" /\ line.bases # <<>> -> <<Bare(line.name)>>
      [] OTHER -> <<>>

\* A variant of extract_function_calls_python that gives the calls in the
\* order of the text.
extract_function_calls_python_unsorted(body, all_functions) ==
    LET sites == Concat([i \in DOMAIN body |-> CallSites(body[i])])
        found == SelectSeq(sites, LAMBDA t : /\ t.name \in all_functions
                                             /\ (t.dotted \/ t.name \notin PY_EXCLUDE_KEYWORDS))
    IN  [i \in DOMAIN found |-> found[i].name]

\* lines 75-102: body is the sequence of the lines of the body
extract_function_calls_python(body, all_functions) ==
    LET sites == Range(Concat([i \in DOMAIN body |-> CallSites(body[i])]))
        by_call_pattern == {s.name : s \in {t \in sites : /\ t.name \in all_functions
                                                           /\ t.name \notin PY_EXCLUDE_KEYWORDS}}
        by_method_pattern == {s.name : s \in {t \in sites : t.dotted /\ t.name \in all_functions}}
    IN  Sorted(by_call_pattern \cup by_method_pattern)

\* lines 257-264 and 360-367: the type of a constant from its value
ConstType(value) ==
    IF value # <<>> /\ value[1] \in {"{", "["} THEN "collection"
    ELSE IF value # <<>> /\ value[1] \in {"'", "\""} THEN "str"
    ELSE IF value # <<>> /\ \A i \in DOMAIN value : value[i] \in {"0", "1", "2", "3"} THEN "number"
    ELSE "value"

\* The words the lower-cased name of a base class contains (lines 304-310).
WordsIn(base) ==
    CASE base \in {Id("Enum"), Id("IntEnum")} -> {"enum"}
      [] base = Id("ValueError") -> {"error"}
      [] base = Id("Exception") -> {"exception"}
      [] base \in {Id("ABC"), Id("ABCMeta")} -> {"abc"}
      [] base = Id("Protocol") -> {"protocol"}
      [] OTHER -> {}

\* str.startswith('_') of a name
IsPrivate(name) == name \in {Id("_cache"), Id("__repr__"), Id("__init__")}

\* lines 204-205
SKIP_DUNDER ==
    {Id(k) : k \in {"__repr__", "__str__", "__hash__", "__eq__", "__ne__",
                    "__lt__", "__le__", "__gt__", "__ge__", "__bool__"}}

\* docstring_pattern on the line after line i (lines 314-319 and 434-438)
DocAfter(lines, i) ==
    IF i + 1 <= Len(lines) /\ lines[i + 1].kind = "docstring"
    THEN <<lines[i + 1].text>> ELSE <<>>

\* The result of the extractor when it starts (lines 158-167).
PyEmptyResult ==
    [imports |-> <<>>, functions |-> EmptyDict, classes |-> EmptyDict, constants |-> EmptyDict,
     variables |-> <<>>, type_aliases |-> EmptyDict, enums |-> EmptyDict,
     call_graph |-> EmptyDict]

\* lines 178-182: the names of all defs, at any indentation
AllFunctionNames(lines) ==
    {lines[i].name : i \in {j \in DOMAIN lines : lines[j].kind \in {"def", "def_open"}}}

\* lines 207-219: the imports, in the order of the text
PyImports(lines) ==
    Concat([i \in DOMAIN lines |->
              CASE lines[i].kind = "from_import" -> <<lines[i].module>>
                [] lines[i].kind = "import" -> lines[i].items
                [] OTHER -> <<>>])

RECURSIVE PopDedented(_, _)
\* lines 285-286: the classes the line is not inside of leave the stack
PopDedented(class_stack, indent_level) ==
    IF class_stack # <<>> /\ indent_level <= class_stack[Len(class_stack)][2]
    THEN PopDedented(SubSeq(class_stack, 1, Len(class_stack) - 1), indent_level)
    ELSE class_stack

\* A variant of PyClassLine that records a class header at any indentation.
PyClassLineAnyIndent(lines, i, st) ==
    [st EXCEPT !.result.classes =
                   Put(@, lines[i].name, [methods |-> EmptyDict, class_constants |-> EmptyDict]),
               !.pending_decorators = <<>>,
               !.current_class = lines[i].name,
               !.current_class_indent = lines[i].indent,
               !.class_stack = Append(PopDedented(st.class_stack, lines[i].indent),
                                      <<lines[i].name, lines[i].indent>>)]

\* lines 279-328: a class line
PyClassLine(lines, i, st) ==
    LET line == lines[i]
        with_decorators ==
            IF st.pending_decorators # <<>>
            THEN Put([methods |-> EmptyDict, class_constants |-> EmptyDict],
                     "decorators", st.pending_decorators)
            ELSE [methods |-> EmptyDict, class_constants |-> EmptyDict]
        words == UNION {WordsIn(line.bases[k]) : k \in DOMAIN line.bases}
        exact == {line.bases[k] : k \in DOMAIN line.bases}
        with_bases ==
            IF line.bases = <<>> THEN with_decorators
            ELSE LET inherits == Put(with_decorators, "inherits", line.bases)
                 IN  IF "enum" \in words THEN Put(inherits, "type", "enum")
                     ELSE IF "exception" \in words \/ "error" \in words
                          THEN Put(inherits, "type", "exception")
                     ELSE IF Id("ABC") \in exact \/ Id("Protocol") \in exact
                          THEN Put(inherits, "abstract", TRUE)
                     ELSE inherits
        class_info ==
            IF DocAfter(lines, i) # <<>>
            THEN Put(with_bases, "doc", DocAfter(lines, i)[1])
            ELSE with_bases
        pushed == Append(PopDedented(st.class_stack, line.indent), <<line.name, line.indent>>)
    IN  IF line.indent = 0
        THEN [st EXCEPT !.result.classes = Put(@, line.name, class_info),
                        !.pending_decorators = <<>>,
                        !.current_class = line.name,
                        !.current_class_indent = 0,
                        !.class_stack = pushed]
        ELSE [st EXCEPT !.class_stack = pushed]

\* lines 440-466: the index after the last line of the body of the def at
\* line i: every following line that is blank or indented deeper.
RECURSIVE BodyEnd(_, _, _)
BodyEnd(lines, k, func_indent) ==
    IF k > Len(lines) THEN k
    ELSE IF lines[k].kind # "blank" /\ lines[k].indent <= func_indent THEN k
    ELSE BodyEnd(lines, k + 1, func_indent)

\* lines 417-422: "(params)", " -> type" when there is one, "async " before
Signature(line) ==
    (IF line.is_async THEN <<"async", " ">> ELSE <<>>) \o <<"(">> \o line.params \o <<")">>
    \o (IF line.return_type # <<>> THEN <<" ", "->", " ">> \o line.return_type ELSE <<>>)

\* lines 374-487: a def line whose signature ends on the line
PyDefLine(lines, i, st, all_function_names) ==
    LET line == lines[i]
        cls == st.current_class
        with_decorators ==
            IF st.pending_decorators # <<>>
            THEN ("decorators" :> st.pending_decorators) ELSE EmptyDict
        marked ==
            IF /\ st.pending_decorators # <<>>
               /\ Id("abstractmethod") \in Range(st.pending_decorators)
               /\ cls # <<>>
            THEN [st EXCEPT !.result.classes[cls] = Put(@, "abstract", TRUE)]
            ELSE st
        with_doc ==
            IF DocAfter(lines, i) # <<>>
            THEN Put(with_decorators, "doc", DocAfter(lines, i)[1])
            ELSE with_decorators
        body == SubSeq(lines, i + 1, BodyEnd(lines, i + 1, line.indent) - 1)
        calls == extract_function_calls_python(body, all_function_names)
        with_calls ==
            IF body # <<>> /\ calls # <<>> THEN Put(with_doc, "calls", calls) ELSE with_doc
        func_info ==
            IF DOMAIN with_calls = {} THEN BareSig(Signature(line))
            ELSE Put(with_calls, "signature", Signature(line))
        cleared == [marked EXCEPT !.pending_decorators = <<>>]
    IN  IF line.name \in SKIP_DUNDER /\ line.name # Id("__init__") THEN st
        ELSE IF cls # <<>> /\ line.indent > st.current_class_indent
             THEN [cleared EXCEPT !.result.classes[cls].methods = Put(@, line.name, func_info)]
        ELSE IF line.indent = 0
             THEN [cleared EXCEPT !.result.functions = Put(@, line.name, func_info)]
        ELSE cleared

\* lines 489-497: a class property
PyPropertyLine(line, st) ==
    LET cls == st.current_class IN
    IF /\ cls # <<>>
       /\ line.kind = "annotated"
       /\ line.indent > st.current_class_indent
       /\ ~IsPrivate(line.name)
    THEN [st EXCEPT !.result.classes[cls] =
                       Put(@, "properties", Append(Get(@, "properties", <<>>), line.name))]
    ELSE st

\* lines 331-335: a line that is not blank, not a comment, and not indented
\* deeper than the class ends the class
PyLeaveClass(line, st) ==
    IF st.current_class # <<>> /\ line.kind # "blank" /\ line.indent <= st.current_class_indent
    THEN [st EXCEPT !.current_class = <<>>, !.current_class_indent = -1]
    ELSE st

\* lines 338-370: an enum value or a class constant; <<>> when the line is
\* neither
PyClassConstantLine(line, st) ==
    LET cls == st.current_class IN
    IF cls = <<>> THEN <<>>
    ELSE IF /\ Get(st.result.classes[cls], "type", "") = "enum"
            /\ line.kind \in {"const", "enum_member"}
            /\ line.indent > 0
            /\ line.indent > st.current_class_indent
         THEN <<[st EXCEPT !.result.classes[cls] =
                              Put(@, "values", Append(Get(@, "values", <<>>), line.name))]>>
    ELSE IF /\ line.kind = "const"
            /\ line.indent > 0
            /\ line.indent > st.current_class_indent
         THEN <<[st EXCEPT !.result.classes[cls].class_constants =
                              Put(@, line.name, ConstType(line.value))]>>
    ELSE <<>>

\* lines 225-499: one turn of the while loop, on line i
PyLine(lines, i, st, all_function_names) ==
    LET line == lines[i]
        at_module == st.current_class = <<>>
    IN  IF line.kind \in {"comment", "docstring"} THEN st
        ELSE IF line.kind = "decorator"
             THEN [st EXCEPT !.pending_decorators = Append(@, line.name)]
        ELSE IF at_module /\ line.kind = "type_alias" /\ line.indent = 0
             THEN [st EXCEPT !.result.type_aliases = Put(@, line.name, line.value)]
        ELSE IF at_module /\ line.kind = "const" /\ line.indent = 0
             THEN [st EXCEPT !.result.constants = Put(@, line.name, ConstType(line.value))]
        ELSE IF at_module /\ line.kind = "annotated" /\ line.indent = 0 /\ line.has_value
             THEN IF line.name \notin Range(st.result.variables) /\ ~IsPrivate(line.name)
                  THEN [st EXCEPT !.result.variables = Append(@, line.name)]
                  ELSE st
        ELSE IF line.kind = "class" THEN PyClassLine(lines, i, st)
        ELSE LET left == PyLeaveClass(line, st)
                 constant == PyClassConstantLine(line, left)
             IN  IF constant # <<>> THEN constant[1]
                 ELSE IF line.kind = "def"
                      THEN PyPropertyLine(line, PyDefLine(lines, i, left, all_function_names))
                 ELSE PyPropertyLine(line, left)

\* line 386: re.search(r'\).*:', line) finds the end of a signature
EndsSignature(line) ==
    line.kind \in {"def", "sig_end"} \/ (line.kind = "class" /\ line.bases # <<>>)

RECURSIVE SignatureEnd(_, _)
\* lines 383-389: the first line from line j on that ends a signature; one
\* past the last line when there is none
SignatureEnd(lines, j) ==
    IF j > Len(lines) THEN j
    ELSE IF EndsSignature(lines[j]) THEN j
    ELSE SignatureEnd(lines, j + 1)

\* What a line adds to full_sig between the "(" of the def and the last ")".
SigText(line) ==
    CASE line.kind = "sig_end" -> line.params
      [] line.kind = "def" -> <<"def", " ">> \o line.name \o <<"(">> \o line.params
      [] line.kind = "class" -> <<"class", " ">> \o line.name \o <<"(">> \o Concat(line.bases)
      [] line.kind = "blank" -> <<>>
      [] OTHER -> <<line.kind>>

\* lines 381-397: the lines with the def of line i, joined with the lines up
\* to line j, standing as one def line at line j
JoinedAt(lines, i, j) ==
    LET params == Concat([k \in 1..(j - i) |-> SigText(lines[i + k])])
        return_type == IF lines[j].kind \in {"sig_end", "def"} THEN lines[j].return_type
                       ELSE <<>>
    IN  [lines EXCEPT ![j] = Def(lines[i].indent, lines[i].name, lines[i].is_async,
                                 params, return_type)]

\* A variant of PyTurn that stays at a def whose signature never ends.
PyTurnStaysAtOpenDef(lines, i, st, all_function_names) ==
    IF lines[i].kind = "def_open"
    THEN LET left == PyLeaveClass(lines[i], st)
             j == SignatureEnd(lines, i)
         IN  IF j > Len(lines) THEN [i |-> i, st |-> left]
             ELSE [i |-> j + 1,
                   st |-> PyDefLine(JoinedAt(lines, i, j), j, left, all_function_names)]
    ELSE [i |-> i + 1, st |-> PyLine(lines, i, st, all_function_names)]

\* lines 225-499: one turn of the while loop: the line the loop is at next,
\* and the locals after the turn
PyTurn(lines, i, st, all_function_names) ==
    IF lines[i].kind = "def_open"
    THEN LET left == PyLeaveClass(lines[i], st)
             j == SignatureEnd(lines, i)
         IN  IF j > Len(lines) THEN [i |-> i + 1, st |-> left]
             ELSE [i |-> j + 1,
                   st |-> PyDefLine(JoinedAt(lines, i, j), j, left, all_function_names)]
    ELSE [i |-> i + 1, st |-> PyLine(lines, i, st, all_function_names)]

RECURSIVE PyLoop(_, _, _, _)
PyLoop(lines, i, st, all_function_names) ==
    IF i > Len(lines) THEN st
    ELSE LET turn == PyTurn(lines, i, st, all_function_names)
         IN  PyLoop(lines, turn.i, turn.st, all_function_names)

\* lines 501-510: the empty collections of a class are removed
PyCleanClass(class_info) ==
    LET empty == {k \in {"properties", "class_constants", "decorators", "values"} :
                     Has(class_info, k) /\ DOMAIN class_info[k] = {}}
    IN  [k \in DOMAIN class_info \ empty |-> class_info[k]]

\* lines 512-522: the empty module-level collections are removed
PyCleanResult(result) ==
    LET empty == {k \in {"constants", "variables", "type_aliases", "enums", "imports"} :
                     DOMAIN result[k] = {}}
    IN  [k \in DOMAIN result \ empty |-> result[k]]

\* lines 524-535: the enum classes move to the enums section
PyMoveEnums(result) ==
    LET enum_names == {c \in DOMAIN result.classes : Get(result.classes[c], "type", "") = "enum"}
        enums_to_move ==
            [c \in enum_names |-> [values |-> Get(result.classes[c], "values", <<>>),
                                   doc |-> Get(result.classes[c], "doc", "")]]
        without == [result EXCEPT !.classes = [c \in DOMAIN @ \ enum_names |-> @[c]]]
    IN  IF enum_names # {} THEN Put(without, "enums", enums_to_move) ELSE without

\* lines 158-222: the locals when the while loop starts
PyStart(lines) ==
    [result |-> [PyEmptyResult EXCEPT !.imports = PyImports(lines)],
     current_class |-> <<>>,
     current_class_indent |-> -1,
     class_stack |-> <<>>,
     pending_decorators |-> <<>>]

\* lines 501-537: what the extractor returns from the locals after the loop
PyFinish(st) ==
    LET cleaned == [st.result EXCEPT !.classes = [c \in DOMAIN @ |-> PyCleanClass(@[c])]]
    IN  PyMoveEnums(PyCleanResult(cleaned))

\* lines 156-537
extract_python_signatures(content) ==
    LET lines == content
    IN  PyFinish(PyLoop(lines, 1, PyStart(lines), AllFunctionNames(lines)))

(***************************************************************************)
(* extract_shell_signatures.  Every line of a shell content carries its    *)
(* kind, its indentation, the number of "{" and of "}" in it, and the      *)
(* positional parameters ($1, $2, ...) it refers to.                       *)
(***************************************************************************)
ShLine(kind, n) == [kind |-> kind, indent |-> n, opens |-> 0, closes |-> 0, params |-> <<>>]

\* an empty line
ShBlank == ShLine("blank", 0)

\* #!/bin/bash
Shebang == ShLine("shebang", 0)

\* "# text"
ShComment(text) == ShLine("comment", 0) @@ [text |-> text]

\* "name() {" (style 1) and "function name {" (style 2)
Func1(n, name) == ShLine("func1", n) @@ [name |-> name]

Func2(n, name) == ShLine("func2", n) @@ [name |-> name]

\* "name() { commands; }" on one line; params are the positional parameters
\* the commands refer to
Func1OneLine(n, name, params) ==
    [Func1(n, name) EXCEPT !.opens = 1, !.closes = 1, !.params = params]

\* A command line: the functions it names where a command may stand, its
\* braces and its positional parameters.
Cmd(n, calls, opens, closes, params) ==
    [kind |-> "cmd", indent |-> n, opens |-> opens, closes |-> closes, params |-> params,
     calls |-> calls]

\* "export NAME=value"; value is <<>> for "export NAME"
Export(name, value) == ShLine("export", 0) @@ [name |-> name, value |-> value]

\* "NAME=value"
Var(n, name) == ShLine("var", n) @@ [name |-> name]

\* "source file" or ". file"
Source(file) == ShLine("source", 0) @@ [file |-> file]

\* A positional parameter: $ and a run of digits.  int() of the run raises
\* ValueError when the run is longer than the interpreter's limit for the
\* conversion of a str to an int.
Param(n) == [num |-> n, too_long |-> FALSE]

LongParam == [num |-> 0, too_long |-> TRUE]

\* the first 4 of "$1 ${2} ${3} ..."
ParamTokens == <<"$1", "${2}", "${3}", "${4}">>

\* lines 923-933: the names of the functions defined at the start of a line
ShAllFunctionNames(lines) ==
    {lines[i].name : i \in {j \in DOMAIN lines : /\ lines[j].kind \in {"func1", "func2"}
                                                  /\ lines[j].indent = 0}}

\* lines 976-999: the parameters found after line i, from line j on:
\* [params |-> the numbers, in the order found] or [raised |-> the exception]
RECURSIVE ShParams(_, _, _, _, _, _)
ShParams(lines, i, j, brace_count, in_func_body, params) ==
    IF j > Len(lines) \/ j >= i + 20 THEN [params |-> params]
    ELSE LET line == lines[j]
             opened == brace_count + line.opens
             inside == in_func_body \/ line.opens > 0
             closed == opened - line.closes
             RECURSIVE AddParams(_, _)
             AddParams(ps, acc) ==
                 IF ps = <<>> THEN [params |-> acc]
                 ELSE IF Head(ps).too_long THEN [raised |-> "ValueError"]
                 ELSE IF Head(ps).num > 0 /\ Head(ps).num \notin Range(acc)
                      THEN AddParams(Tail(ps), Append(acc, Head(ps).num))
                 ELSE AddParams(Tail(ps), acc)
             added == IF inside THEN AddParams(line.params, params) ELSE [params |-> params]
         IN  IF line.closes > 0 /\ closed <= 0 THEN [params |-> params]
             ELSE IF Has(added, "raised") THEN added
             ELSE ShParams(lines, i, j + 1, closed, inside, added.params)

Max(S) == CHOOSE x \in S : \A y \in S : y <= x

\* lines 1001-1007: "()" or "($1 ${2} ... ${max})"
ShSignature(params) ==
    IF params = <<>> THEN <<"(", ")">>
    ELSE <<"(">> \o Join([j \in 1..Max(Range(params)) |-> <<ParamTokens[j]>>], " ") \o <<")">>

\* lines 1009-1023: the lines of the body, from the first line with a "{"
\* to the line whose "}" closes it
RECURSIVE ShBody(_, _, _, _)
ShBody(lines, j, brace_count, in_func_body) ==
    IF j > Len(lines) THEN <<>>
    ELSE LET line == lines[j]
             inside == in_func_body \/ line.opens > 0
             closed == brace_count + line.opens - line.closes
             here == IF inside THEN <<line>> ELSE <<>>
         IN  IF line.closes > 0 /\ closed <= 0 THEN here
             ELSE here \o ShBody(lines, j + 1, closed, inside)

\* What the patterns of extract_function_calls_shell find in a line: the
\* commands of a command line, the name of a style-1 definition.
ShCallSites(line) ==
    CASE line.kind = "cmd" -> line.calls
      [] line.kind = "func1" -> {line.name}
      [] OTHER -> {}

\* lines 889-908
extract_function_calls_shell(body, all_functions) ==
    Sorted({f \in all_functions : \E k \in DOMAIN body : f \in ShCallSites(body[k])})

\* lines 970-973: the comment on the line before, without its "#"
ShDoc(lines, i) ==
    IF i > 1 /\ lines[i - 1].kind = "comment" THEN lines[i - 1].text
    ELSE IF i > 1 /\ lines[i - 1].kind = "shebang" THEN "!/bin/bash"
    ELSE ""

\* lines 966-1040 and 1042-1116: a function definition at line i
ShFunctionLine(lines, i, st, all_function_names) ==
    LET found == ShParams(lines, i, i + 1, 0, FALSE, <<>>)
        body == ShBody(lines, i + 1, 0, FALSE)
        calls == extract_function_calls_shell(body, all_function_names)
        with_calls == IF body # <<>> /\ calls # <<>> THEN ("calls" :> calls) ELSE EmptyDict
        with_doc == IF ShDoc(lines, i) # "" THEN Put(with_calls, "doc", ShDoc(lines, i))
                    ELSE with_calls
        func_info == IF DOMAIN with_doc = {} THEN BareSig(ShSignature(found.params))
                     ELSE Put(with_doc, "signature", ShSignature(found.params))
    IN  IF Has(found, "raised") THEN [st EXCEPT !.raised = found.raised]
        ELSE [st EXCEPT !.result.functions = Put(@, lines[i].name, func_info)]

\* lines 1123-1130: the type of an exported value
ExportType(value) ==
    IF value[1] \in {"'", "\""} THEN "str"
    ELSE IF \A i \in DOMAIN value : value[i] \in {"0", "1", "2", "3"} THEN "number"
    ELSE "value"

\* lines 959-1156: one turn of the for loop, on line i
ShLoopLine(lines, i, st, all_function_names) ==
    LET line == lines[i] IN
    CASE line.kind \in {"func1", "func2"} -> ShFunctionLine(lines, i, st, all_function_names)
      [] line.kind = "export" ->
            IF line.value # <<>>
            THEN [st EXCEPT !.result.exports = Put(@, line.name, ExportType(line.value))]
            ELSE st
      [] line.kind = "var" ->
            IF ~Has(st.result.exports, line.name) /\ line.name \notin Range(st.result.variables)
            THEN [st EXCEPT !.result.variables = Append(@, line.name)]
            ELSE st
      [] line.kind = "source" ->
            IF line.file # <<>> /\ line.file \notin Range(st.result.sources)
            THEN [st EXCEPT !.result.sources = Append(@, line.file)]
            ELSE st
      [] OTHER -> st

RECURSIVE ShLoop(_, _, _, _)
ShLoop(lines, i, st, all_function_names) ==
    IF i > Len(lines) \/ st.raised # "" THEN st
    ELSE ShLoop(lines, i + 1, ShLoopLine(lines, i, st, all_function_names), all_function_names)

\* lines 1158-1164
ShCleanResult(result) ==
    LET empty == {k \in {"variables", "exports", "sources"} : DOMAIN result[k] = {}}
    IN  [k \in DOMAIN result \ empty |-> result[k]]

\* lines 911-1166: the bundle returned, or the exception raised
extract_shell_signatures(content) ==
    LET lines == content
        start == [result |-> [functions |-> EmptyDict, variables |-> <<>>, exports |-> EmptyDict,
                              sources |-> <<>>, call_graph |-> EmptyDict],
                  raised |-> ""]
        final == ShLoop(lines, 1, start, ShAllFunctionNames(lines))
    IN  IF final.raised # "" THEN Raises(final.raised)
        ELSE Returns(ShCleanResult(final.result))

(***************************************************************************)
(* extract_javascript_signatures scans the whole content with one pattern  *)
(* after another.  A JavaScript content is the sequence of the items its   *)
(* patterns match, in the order of the text; a class holds its members.    *)
(***************************************************************************)
\* import ... from 'module'
JsImport(module) == [kind |-> "import", module |-> module]

\* const name = require('module')
JsRequire(name, module) == [kind |-> "require", name |-> name, module |-> module]

\* type name = type;
JsTypeAlias(name, type) == [kind |-> "type_alias", name |-> name, type |-> type]

\* interface name extends a, b {
JsInterface(name, extends) == [kind |-> "interface", name |-> name, extends |-> extends]

\* enum name { values }
JsEnum(name, values) == [kind |-> "enum", name |-> name, values |-> values]

\* const NAME = value;
JsConst(name, value) == [kind |-> "const", name |-> name, value |-> value]

\* let name = ...
JsVar(name) == [kind |-> "var", name |-> name]

\* /** text */
JsDoc(text) == [kind |-> "jsdoc", text |-> text]

\* function name(params): return_type { calls }
JsFunction(name, params, return_type, is_async, calls) ==
    [kind |-> "function", name |-> name, params |-> params, return_type |-> return_type,
     is_async |-> is_async, calls |-> calls]

\* const name = (params) => { calls }
JsArrow(name, params, is_async, calls) ==
    [kind |-> "arrow", name |-> name, params |-> params, return_type |-> <<>>,
     is_async |-> is_async, calls |-> calls]

\* class name extends base { members }
JsClass(name, extends, members) ==
    [kind |-> "class", name |-> name, extends |-> extends, members |-> members]

\* name(params) { calls }: calls are the call sites of the whole body, and
\* inner holds those of the first { } block inside the body, when there is one.
JsMethod(name, params, is_async, calls, inner) ==
    [kind |-> "method", name |-> name, params |-> params, is_async |-> is_async,
     calls |-> calls, inner |-> inner]

\* static NAME = value;
JsStatic(name, value) == [kind |-> "static", name |-> name, value |-> value]

\* lines 111-117
JS_EXCLUDE_KEYWORDS ==
    {Id(k) : k \in {"if", "while", "for", "switch", "catch", "function", "class",
                    "return", "throw", "new", "typeof", "instanceof", "void",
                    "console", "Array", "Object", "String", "Number", "Boolean",
                    "Promise", "Math", "Date", "JSON", "parseInt", "parseFloat"}}

\* A variant of extract_function_calls_javascript that takes the dotted calls
\* of any name, known or not.
extract_function_calls_javascript_any_method(body, all_functions) ==
    LET sites == Range(body)
        by_call_pattern == {s.name : s \in {t \in sites : /\ t.name \in all_functions
                                                           /\ t.name \notin JS_EXCLUDE_KEYWORDS}}
        by_method_pattern == {s.name : s \in {t \in sites : t.dotted}}
    IN  Sorted(by_call_pattern \cup by_method_pattern)

\* lines 105-130: body is the sequence of the call sites of the body
extract_function_calls_javascript(body, all_functions) ==
    LET sites == Range(body)
        by_call_pattern == {s.name : s \in {t \in sites : /\ t.name \in all_functions
                                                           /\ t.name \notin JS_EXCLUDE_KEYWORDS}}
        by_method_pattern == {s.name : s \in {t \in sites : t.dotted /\ t.name \in all_functions}}
    IN  Sorted(by_call_pattern \cup by_method_pattern)

ItemsOf(content, kinds) == SelectSeq(content, LAMBDA item : item.kind \in kinds)

MembersOf(content) ==
    Concat([i \in DOMAIN content |->
               IF content[i].kind = "class" THEN content[i].members ELSE <<>>])

\* lines 554-564: the names of functions, of arrow functions and of whatever
\* stands before "(...) {"
JsAllFunctionNames(content) ==
    {item.name : item \in Range(ItemsOf(content, {"function", "arrow"}))}
    \cup {m.name : m \in Range(ItemsOf(MembersOf(content), {"method"}))}

\* lines 566-577: the modules of the import statements, then those of the
\* require calls
JsImports(content) ==
    LET imports == ItemsOf(content, {"import"})
        requires == ItemsOf(content, {"require"})
    IN  [i \in DOMAIN imports |-> imports[i].module]
        \o [i \in DOMAIN requires |-> requires[i].module]

\* lines 579-607
JsTypeAliases(content) ==
    LET aliases == ItemsOf(content, {"type_alias"})
    IN  [n \in {aliases[i].name : i \in DOMAIN aliases} |->
            aliases[Max({i \in DOMAIN aliases : aliases[i].name = n})].type]

\* The first JSDoc comment before item i (lines 617-619 and 702-704).
DocBefore(content, i) ==
    LET docs == {j \in 1..(i - 1) : content[j].kind = "jsdoc"}
    IN  IF docs = {} THEN <<>> ELSE <<content[CHOOSE j \in docs : \A k \in docs : j <= k].text>>

LastOf(content, kind, name) ==
    Max({i \in DOMAIN content : content[i].kind = kind /\ content[i].name = name})

NamesOf(content, kind) == {content[i].name : i \in {j \in DOMAIN content : content[j].kind = kind}}

\* lines 609-620
JsInterfaces(content) ==
    [n \in NamesOf(content, "interface") |->
        LET i == LastOf(content, "interface", n)
            with_extends == IF content[i].extends # <<>>
                            THEN ("extends" :> content[i].extends) ELSE EmptyDict
        IN  IF DocBefore(content, i) # <<>>
            THEN Put(with_extends, "doc", DocBefore(content, i)[1])
            ELSE with_extends]

\* lines 622-645
JsEnums(content) ==
    [n \in NamesOf(content, "enum") |->
        [values |-> content[LastOf(content, "enum", n)].values]]

\* lines 647-661
JsConstants(content) ==
    [n \in NamesOf(content, "const") |->
        ConstType(content[LastOf(content, "const", n)].value)]

\* [a-z]\w* of var_pattern: the name starts with a small letter
StartsSmall(name) == name \notin {Id("A"), Id("B"), Id("K"), Id("LIMIT"), Id("_cache")}

\* lines 663-668: the names after let or const, each once, in the order of
\* the text
RECURSIVE Unique(_)
Unique(s) ==
    IF s = <<>> THEN <<>>
    ELSE LET rest == Unique(SubSeq(s, 1, Len(s) - 1))
         IN  IF s[Len(s)] \in Range(rest) THEN rest ELSE Append(rest, s[Len(s)])

JsVariables(content) ==
    LET declared == ItemsOf(content, {"var", "require", "arrow"})
        small == SelectSeq(declared, LAMBDA item : StartsSmall(item.name))
    IN  Unique([i \in DOMAIN small |-> small[i].name])

\* lines 747-752 and 831-836: "(params)", ": type" when there is one,
\* "async " before
JsSignature(item, return_type) ==
    (IF item.is_async THEN <<"async", " ">> ELSE <<>>) \o <<"(">> \o item.params \o <<")">>
    \o (IF return_type # <<>> THEN <<":", " ">> \o return_type ELSE <<>>)

\* lines 754-775: the pattern of a method ends with the "{" of the method,
\* so the body scanned for calls is the block of the next "{" of the class:
\* the first block inside the method, or else the body of the member after
\* it (the lines of the model are short: the next "{" is less than 100
\* characters away and a body is less than 3000 characters long).
RECURSIVE NextBlock(_, _)
NextBlock(members, k) ==
    IF k > Len(members) THEN <<>>
    ELSE IF members[k].kind = "method" THEN members[k].calls
    ELSE IF members[k].kind = "static" /\ members[k].value # <<>> /\ members[k].value[1] = "{"
         THEN <<>>
    ELSE NextBlock(members, k + 1)

ScannedBody(members, k) ==
    IF members[k].inner # <<>> THEN members[k].inner[1] ELSE NextBlock(members, k + 1)

\* lines 740-741
JS_SKIPPED_METHODS == {Id(k) : k \in {"get", "set", "if", "for", "while", "switch", "catch", "try"}}

\* lines 724-785: the entry of the method at member k
JsMethodInfo(members, k, all_function_names) ==
    LET calls == extract_function_calls_javascript(ScannedBody(members, k), all_function_names)
    IN  IF calls # <<>>
        THEN [calls |-> calls, signature |-> JsSignature(members[k], <<>>)]
        ELSE BareSig(JsSignature(members[k], <<>>))

\* lines 711-785: the methods of a class; the constructor is entered by the
\* pattern of the methods under its own name and by the last pattern as
\* __init__
JsMethods(members, all_function_names) ==
    LET kept == {k \in DOMAIN members : /\ members[k].kind = "method"
                                        /\ members[k].name \notin JS_SKIPPED_METHODS}
        last(n) == Max({k \in kept : members[k].name = n})
        by_name == [n \in {members[k].name : k \in kept} |->
                       JsMethodInfo(members, last(n), all_function_names)]
    IN  IF Id("constructor") \in DOMAIN by_name
        THEN Put(by_name, Id("__init__"), by_name[Id("constructor")])
        ELSE by_name

\* lines 787-800
JsStaticConstants(members) ==
    [n \in NamesOf(members, "static") |-> ConstType(members[LastOf(members, "static", n)].value)]

\* lines 670-709 and 720-800: the entry of the class at item i
JsClassInfo(content, i, all_function_names) ==
    LET item == content[i]
        base == [methods |-> JsMethods(item.members, all_function_names),
                 static_constants |-> JsStaticConstants(item.members)]
        with_extends ==
            IF item.extends = <<>> THEN base
            ELSE IF "error" \in WordsIn(item.extends) \/ "exception" \in WordsIn(item.extends)
                 THEN Put(Put(base, "extends", item.extends), "type", "exception")
            ELSE Put(base, "extends", item.extends)
    IN  IF DocBefore(content, i) # <<>>
        THEN Put(with_extends, "doc", DocBefore(content, i)[1])
        ELSE with_extends

JsClasses(content, all_function_names) ==
    [n \in NamesOf(content, "class") |->
        JsClassInfo(content, LastOf(content, "class", n), all_function_names)]

\* lines 802-865: the entry of a function outside the classes; of a
\* declaration and an arrow function of one name the arrow function, matched
\* by the later pattern, stays
JsFunctionInfo(item, all_function_names) ==
    LET calls == extract_function_calls_javascript(item.calls, all_function_names)
    IN  IF calls # <<>>
        THEN [calls |-> calls, signature |-> JsSignature(item, item.return_type)]
        ELSE BareSig(JsSignature(item, item.return_type))

JsFunctions(content, all_function_names) ==
    [n \in NamesOf(content, "function") \cup NamesOf(content, "arrow") |->
        IF n \in NamesOf(content, "arrow")
        THEN JsFunctionInfo(content[LastOf(content, "arrow", n)], all_function_names)
        ELSE JsFunctionInfo(content[LastOf(content, "function", n)], all_function_names)]

\* lines 867-871
JsCleanClass(class_info) ==
    IF DOMAIN class_info.static_constants = {} THEN Del(class_info, "static_constants")
    ELSE class_info

\* lines 873-884
JsCleanResult(result) ==
    LET empty == {k \in {"constants", "variables", "imports", "type_aliases", "interfaces",
                         "enums"} : DOMAIN result[k] = {}}
    IN  [k \in DOMAIN result \ empty |-> result[k]]

\* lines 540-886
extract_javascript_signatures(content) ==
    LET all_function_names == JsAllFunctionNames(content)
        classes == JsClasses(content, all_function_names)
        result == [imports |-> JsImports(content),
                   functions |-> JsFunctions(content, all_function_names),
                   classes |-> [c \in DOMAIN classes |-> JsCleanClass(classes[c])],
                   constants |-> JsConstants(content),
                   variables |-> JsVariables(content),
                   type_aliases |-> JsTypeAliases(content),
                   interfaces |-> JsInterfaces(content),
                   enums |-> JsEnums(content),
                   call_graph |-> EmptyDict]
    IN  JsCleanResult(result)

(***************************************************************************)
(* One call of a built-in extractor on a content of at most MaxLines       *)
(* lines.                                                                  *)
(***************************************************************************)
MaxLines == 3

RECURSIVE SeqsUpTo(_, _)
\* the sequences of at most n elements of S
SeqsUpTo(S, n) ==
    IF n = 0 THEN {<<>>}
    ELSE LET shorter == SeqsUpTo(S, n - 1)
         IN  shorter \cup {Append(t, x) : t \in {u \in shorter : Len(u) = n - 1}, x \in S}

PyLines ==
    { Import(0, <<Id("os"), Id("abc")>>),
      Class(0, Id("Color"), <<Id("Enum")>>),
      EnumMember(4, Id("RED")),
      Const(4, Id("BLUE"), <<"2">>),
      Class(0, Id("K"), <<>>),
      Annotated(4, Id("count"), FALSE),
      Annotated(0, Id("count"), TRUE),
      Const(0, Id("LIMIT"), <<"3">>),
      Const(8, Id("LIMIT"), <<"3">>),
      Class(4, Id("Base"), <<>>),
      Def(8, Id("inner"), FALSE, <<"self">>, <<>>),
      Def(4, Id("m"), FALSE, <<"self">>, <<>>),
      Def(0, Id("run"), FALSE, <<>>, <<>>),
      Stmt(8, <<Bare(Id("run")), Bare(Id("helper")), Dotted(Id("m"))>>),
      Def(0, Id("helper"), TRUE, <<"x">>, <<"int">>) }

JsItems ==
    { JsImport(Id("os")),
      JsRequire(Id("util"), Id("abc")),
      JsConst(Id("LIMIT"), <<"3">>),
      JsVar(Id("count")),
      JsEnum(Id("Color"), <<Id("RED"), Id("BLUE")>>),
      JsClass(Id("K"), <<>>,
              <<JsMethod(Id("m"), <<>>, FALSE, <<Bare(Id("run"))>>, <<>>),
                JsMethod(Id("f"), <<>>, FALSE, <<Bare(Id("run")), Bare(Id("helper"))>>, <<>>)>>),
      JsFunction(Id("run"), <<>>, <<>>, FALSE, <<Bare(Id("run")), Bare(Id("helper"))>>),
      JsArrow(Id("helper"), <<"x">>, TRUE, <<>>) }

ShLines ==
    { Shebang,
      ShComment("d"),
      Func1(0, Id("setup")),
      Func2(0, Id("helper")),
      Func1OneLine(0, Id("run"), <<Param(1), Param(2)>>),
      Cmd(0, {}, 1, 0, <<>>),
      Cmd(2, {Id("setup"), Id("helper")}, 1, 1, <<Param(2)>>),
      Cmd(2, {}, 0, 0, <<LongParam>>),
      Export(Id("PATH"), <<"'", "x">>),
      Var(0, Id("LIMIT")),
      Source(<<"lib">>),
      Source(<<"abc">>) }

InitExtract ==
    /\ InitIdle
    /\ call \in {[fn |-> "extract_python_signatures", content |-> c] :
                    c \in SeqsUpTo(PyLines, MaxLines)}
                \cup {[fn |-> "extract_javascript_signatures", content |-> c] :
                         c \in SeqsUpTo(JsItems, MaxLines)}
                \cup {[fn |-> "extract_shell_signatures", content |-> c] :
                         c \in SeqsUpTo(ShLines, MaxLines)}

Call_extract_python_signatures ==
    /\ Pending("extract_python_signatures")
    /\ returned' = Returns(extract_python_signatures(call.content))
    /\ UNCHANGED <<buildVars, call, tools, frame, disk>>

Call_extract_javascript_signatures ==
    /\ Pending("extract_javascript_signatures")
    /\ returned' = Returns(extract_javascript_signatures(call.content))
    /\ UNCHANGED <<buildVars, call, tools, frame, disk>>

Call_extract_shell_signatures ==
    /\ Pending("extract_shell_signatures")
    /\ returned' = extract_shell_signatures(call.content)
    /\ UNCHANGED <<buildVars, call, tools, frame, disk>>

NextExtract ==
    \/ Call_extract_python_signatures
    \/ Call_extract_javascript_signatures
    \/ Call_extract_shell_signatures

SpecExtract == InitExtract /\ [][NextExtract]_vars

Extractors ==
    {"extract_python_signatures", "extract_javascript_signatures", "extract_shell_signatures"}

ExtractorCalled == call.fn \in Extractors /\ returned # NotReturned

DeclaredFields ==
    {"imports", "functions", "classes", "constants", "variables", "type_aliases", "enums"}

\* C8: whatever the content, a call of a built-in extractor returns (it
\* never raises), and the bundle it returns has every declared field:
\* imports, functions, classes, constants, variables, type_aliases, enums.
C8_WellFormedBundle ==
    ExtractorCalled =>
        /\ HasReturned
        /\ \A field \in DeclaredFields : Has(returned.value, field)

\* The rank of a name in the order of sorted().
SortRank(name) == CHOOSE i \in DOMAIN IdentifierOrder : IdentifierOrder[i] = name[1]

IsSorted(list) == \A i, j \in DOMAIN list : i < j => SortRank(list[i]) <= SortRank(list[j])

IsStrictlySorted(list) == \A i, j \in DOMAIN list : i < j => SortRank(list[i]) < SortRank(list[j])

\* The function and method entries of a bundle.
BundleRecords(bundle) ==
    {bundle.functions[f] : f \in DOMAIN bundle.functions}
    \cup (IF Has(bundle, "classes")
          THEN UNION {{bundle.classes[c].methods[m] : m \in DOMAIN bundle.classes[c].methods} :
                         c \in DOMAIN bundle.classes}
          ELSE {})

CallsLists(bundle) == {r.calls : r \in {x \in BundleRecords(bundle) : Has(x, "calls")}}

\* The name lists of a bundle other than the calls lists.
OtherNameLists(bundle) ==
    {bundle[k] : k \in {"imports", "variables", "sources"} \cap DOMAIN bundle}
    \cup (IF Has(bundle, "enums")
          THEN {bundle.enums[e].values : e \in DOMAIN bundle.enums} ELSE {})
    \cup (IF Has(bundle, "classes")
          THEN {bundle.classes[c].properties :
                   c \in {x \in DOMAIN bundle.classes : Has(bundle.classes[x], "properties")}}
          ELSE {})

\* What the extractor called gives for a content.
Extracted(fn, content) ==
    CASE fn = "extract_python_signatures" -> Returns(extract_python_signatures(content))
      [] fn = "extract_javascript_signatures" -> Returns(extract_javascript_signatures(content))
      [] fn = "extract_shell_signatures" -> extract_shell_signatures(content)

Ext(e) == <<".", e>>

\* an outcome that is an exception
IsRaise(outcome) == Has(outcome, "raised")

\* lines 1263-1279
ASTGREP_LANG_BY_EXT ==
    (Ext("py") :> "python") @@ (Ext("js") :> "javascript") @@ (Ext("jsx") :> "javascript") @@
    (Ext("ts") :> "typescript") @@ (Ext("tsx") :> "tsx") @@ (Ext("go") :> "go") @@
    (Ext("rs") :> "rust") @@ (Ext("java") :> "java") @@ (Ext("cs") :> "csharp") @@
    (Ext("c") :> "c") @@ (Ext("h") :> "c") @@ (Ext("cc") :> "cpp") @@ (Ext("cpp") :> "cpp") @@
    (Ext("cxx") :> "cpp") @@ (Ext("hpp") :> "cpp")

\* The text of a match.  form tells which pattern of
\* _extract_name_sig_from_text the text matches for the language of the
\* file: that of a function, that of a class, or none.
MatchText(form, name, params) == [form |-> form, name |-> name, params |-> params]

\* A line of the standard output of ast-grep: an empty line, a line that is
\* not JSON, a JSON value that is not an object, or an object, whose "text"
\* is absent, a str, or some other value.
BlankLine == [json |-> "blank"]

NotJson == [json |-> "invalid"]

JsonNonObject == [json |-> "value"]

JsonObject(text) == [json |-> "object", text |-> "str", match |-> text]

JsonObjectNoText == [json |-> "object", text |-> "absent"]

JsonObjectOddText == [json |-> "object", text |-> "other"]

\* ast-grep as the call finds it: functions holds the lines printed for the
\* function patterns of the language, classes those for its class patterns.
AstGrep(available, fails, functions, classes) ==
    [available |-> available, fails |-> fails, functions |-> functions, classes |-> classes]

\* lines 1301-1327: the matches of a run; no tool or a failing run gives
\* none, and the lines that are empty or not JSON are left out
_astgrep_run(sg, lines) ==
    IF ~sg.available \/ sg.fails THEN <<>>
    ELSE SelectSeq(lines, LAMBDA l : l.json \in {"value", "object"})

\* m.get('text', '') followed by text.strip() raises AttributeError for a
\* match that is no object and for a text that is no str
RaisesOnMatch(m) == m.json = "value" \/ (m.json = "object" /\ m.text = "other")

\* lines 1330-1406: <<[name, params]>> when the text matches the pattern of
\* the kind, <<>> for None
_extract_name_sig_from_text(kind, m) ==
    IF m.text = "str" /\ m.match.form = kind
    THEN <<[name |-> m.match.name, params |-> m.match.params]>>
    ELSE <<>>

\* lines 1422-1429: functions[name] = {'signature': sig} for the first match
\* of each name
RECURSIVE MatchedFunctions(_, _)
MatchedFunctions(matches, functions) ==
    IF matches = <<>> THEN functions
    ELSE LET parsed == _extract_name_sig_from_text("function", Head(matches))
         IN  IF parsed # <<>> /\ ~Has(functions, parsed[1].name)
             THEN MatchedFunctions(Tail(matches),
                      Put(functions, parsed[1].name,
                          [signature |-> <<"(">> \o parsed[1].params \o <<")">>]))
             ELSE MatchedFunctions(Tail(matches), functions)

\* lines 1430-1438: classes[name] = {'methods': {}}
MatchedClasses(matches) ==
    LET names == {_extract_name_sig_from_text("class", matches[i])[1].name :
                     i \in {j \in DOMAIN matches :
                               _extract_name_sig_from_text("class", matches[j]) # <<>>}}
    IN  [n \in names |-> [methods |-> EmptyDict]]

\* the extensions whose branch looks for classes as well (.py and the
\* JavaScript family); the .go, .rs, .c and .h branches look for functions
\* only
HasClassPatterns(ext) == ext \in {Ext("py"), Ext("js"), Ext("jsx"), Ext("ts"), Ext("tsx")}

\* lines 1409-1647, for the branches that have patterns for functions and
\* classes only: .py, the JavaScript family, .go, .rs, .c and .h
extract_with_astgrep(ext, sg) ==
    IF ~Has(ASTGREP_LANG_BY_EXT, ext) \/ ~sg.available THEN Returns(EmptyDict)
    ELSE LET func_matches == _astgrep_run(sg, sg.functions)
             class_matches == IF HasClassPatterns(ext) THEN _astgrep_run(sg, sg.classes)
                              ELSE <<>>
             functions == MatchedFunctions(func_matches, EmptyDict)
             classes == MatchedClasses(class_matches)
             result == [k \in {x \in {"functions", "classes"} :
                                  IF x = "functions" THEN DOMAIN functions # {}
                                  ELSE DOMAIN classes # {}} |->
                           IF k = "functions" THEN functions ELSE classes]
         IN  IF \E i \in DOMAIN func_matches : RaisesOnMatch(func_matches[i])
             THEN Raises("AttributeError")
             ELSE IF \E i \in DOMAIN class_matches : RaisesOnMatch(class_matches[i])
             THEN Raises("AttributeError")
             ELSE Returns(result)

\* ripgrep as the call finds it: the names on the lines printed for the
\* pattern of the contracts and for that of the functions; fails_at is the
\* run that raises (1 or 2), 0 when none does.
RipGrep(available, fails_at, contracts, functions) ==
    [available |-> available, fails_at |-> fails_at, contracts |-> contracts,
     functions |-> functions]

\* lines 1650-1691: an exception of a run is swallowed and what was gathered
\* before it is returned
extract_solidity_with_rg(rg) ==
    IF ~rg.available THEN EmptyDict
    ELSE LET classes == IF rg.fails_at = 1 THEN EmptyDict
                        ELSE [n \in Range(rg.contracts) |-> [methods |-> EmptyDict]]
             functions == IF rg.fails_at \in {1, 2} THEN EmptyDict
                          ELSE [n \in Range(rg.functions) |-> [signature |-> <<"(", ")">>]]
         IN  [k \in {x \in {"functions", "classes"} :
                        IF x = "functions" THEN DOMAIN functions # {}
                        ELSE DOMAIN classes # {}} |->
                 IF k = "functions" THEN functions ELSE classes]

\* A variant of extract_signatures_auto that asks the built-in extractor of
\* a Python file before ast-grep.
extract_signatures_auto_builtin_first(file_path, content, rg, sg) ==
    LET ext == Suffix(file_path)
        via_sg == extract_with_astgrep(ext, sg)
    IN  IF ext = Ext("sol") THEN Returns(extract_solidity_with_rg(rg))
        ELSE IF ext = Ext("py") THEN Returns(extract_python_signatures(content))
        ELSE IF IsRaise(via_sg) THEN via_sg
        ELSE IF DOMAIN via_sg.value # {} THEN via_sg
        ELSE IF ext \in {Ext("js"), Ext("ts"), Ext("jsx"), Ext("tsx")}
             THEN Returns(extract_javascript_signatures(content))
        ELSE IF ext \in {Ext("sh"), Ext("bash")} THEN extract_shell_signatures(content)
        ELSE Returns(EmptyDict)

\* lines 1694-1716
extract_signatures_auto(file_path, content, rg, sg) ==
    LET ext == Suffix(file_path)
        via_sg == extract_with_astgrep(ext, sg)
    IN  IF ext = Ext("sol") THEN Returns(extract_solidity_with_rg(rg))
        ELSE IF IsRaise(via_sg) THEN via_sg
        ELSE IF DOMAIN via_sg.value # {} THEN via_sg
        ELSE IF ext = Ext("py") THEN Returns(extract_python_signatures(content))
        ELSE IF ext \in {Ext("js"), Ext("ts"), Ext("jsx"), Ext("tsx")}
             THEN Returns(extract_javascript_signatures(content))
        ELSE IF ext \in {Ext("sh"), Ext("bash")} THEN extract_shell_signatures(content)
        ELSE Returns(EmptyDict)

(***************************************************************************)
(* One call of extract_signatures_auto, on a file of each kind of          *)
(* extension and with each behaviour of the external tools.                *)
(***************************************************************************)
MaxMatches == 1

SelPaths ==
    { <<"c", ".", "sol">>, <<"x", ".", "py">>, <<"x", ".", "ts">>,
      <<"x", ".", "sh">>, <<"x", ".", "rs">>, <<"x", ".", "txt">> }

\* the contents of the file, by extension
SelContents(file_path) ==
    CASE Suffix(file_path) = Ext("py") ->
             { <<>>,
               <<Import(0, <<Id("os")>>), Def(0, Id("run"), FALSE, <<>>, <<>>)>> }
      [] Suffix(file_path) = Ext("ts") ->
             { <<>>, <<JsFunction(Id("run"), <<>>, <<>>, FALSE, <<>>)>> }
      [] Suffix(file_path) = Ext("sh") ->
             { <<>>,
               <<Func1(0, Id("setup")), Cmd(0, {}, 1, 0, <<>>), Cmd(2, {}, 0, 0, <<Param(2)>>)>>,
               <<Func1(0, Id("setup")), Cmd(0, {}, 1, 0, <<>>), Cmd(2, {}, 0, 0, <<LongParam>>)>> }
      [] OTHER -> { <<>> }

SgLines ==
    { BlankLine, NotJson, JsonNonObject, JsonObjectNoText, JsonObjectOddText,
      JsonObject(MatchText("function", Id("run"), <<"a">>)),
      JsonObject(MatchText("class", Id("K"), <<>>)),
      JsonObject(MatchText("other", Id("K"), <<>>)) }

SgEnvs ==
    { AstGrep(FALSE, FALSE, <<>>, <<>>), AstGrep(TRUE, TRUE, <<>>, <<>>) }
    \cup { AstGrep(TRUE, FALSE, f, c) :
              f \in SeqsUpTo(SgLines, MaxMatches), c \in SeqsUpTo(SgLines, MaxMatches) }

RgEnvs ==
    { RipGrep(FALSE, 0, <<>>, <<>>) }
    \cup { RipGrep(TRUE, n, c, f) :
              n \in 0..2, c \in {<<>>, <<Id("K")>>}, f \in {<<>>, <<Id("run")>>} }

\* ripgrep is consulted for .sol files only: the other files see two of its
\* behaviours
RgEnvsOf(file_path) ==
    IF Suffix(file_path) = Ext("sol") THEN RgEnvs
    ELSE {RipGrep(FALSE, 0, <<>>, <<>>), RipGrep(TRUE, 0, <<Id("K")>>, <<>>)}

InitSel ==
    /\ InitIdle
    /\ \E p \in SelPaths, sg \in SgEnvs :
           \E c \in SelContents(p), rg \in RgEnvsOf(p) :
               call = [fn |-> "extract_signatures_auto", file_path |-> p, content |-> c,
                       rg |-> rg, sg |-> sg]

Call_extract_signatures_auto ==
    /\ Pending("extract_signatures_auto")
    /\ returned' = extract_signatures_auto(call.file_path, call.content, call.rg, call.sg)
    /\ UNCHANGED <<buildVars, call, tools, frame, disk>>

NextSel == Call_extract_signatures_auto

SpecSel == InitSel /\ [][NextSel]_vars

(***************************************************************************)
(* Properties of extract_signatures_auto                                   *)
(***************************************************************************)
SelectorCalled == call.fn = "extract_signatures_auto" /\ returned # NotReturned

\* the outcome of the built-in extractor of an extension, {} when it has none
BuiltIn(ext, content) ==
    CASE ext = Ext("py") -> Returns(extract_python_signatures(content))
      [] ext \in {Ext("js"), Ext("ts"), Ext("jsx"), Ext("tsx")} ->
             Returns(extract_javascript_signatures(content))
      [] ext \in {Ext("sh"), Ext("bash")} -> extract_shell_signatures(content)
      [] OTHER -> Returns(EmptyDict)

Yields(outcome) ==
    /\ Has(outcome, "value")
    /\ Has(outcome.value, "functions") \/ Has(outcome.value, "classes")

\* C4: the outcome of extract_signatures_auto is that of the first applicable
\* branch: (a) for a .sol file the result of the line-match engine, empty
\* when ripgrep is missing or finds nothing, whatever ast-grep and the
\* built-in extractors would give; (b) for any other file the result of
\* ast-grep whenever it has functions or classes, with no field of a
\* built-in extractor in it; (c) when ast-grep gives nothing, the outcome of
\* the built-in extractor of the extension; (d) empty when there is none.
C4_SelectionOrder ==
    SelectorCalled =>
        LET ext == Suffix(call.file_path)
            via_rg == extract_solidity_with_rg(call.rg)
            via_sg == extract_with_astgrep(ext, call.sg)
        IN  /\ ext = Ext("sol") =>
                   /\ returned = Returns(via_rg)
                   /\ ~call.rg.available => returned = Returns(EmptyDict)
            /\ (ext # Ext("sol") /\ Yields(via_sg)) =>
                   /\ returned = via_sg
                   /\ DOMAIN returned.value \subseteq {"functions", "classes"}
            /\ (ext # Ext("sol") /\ via_sg = Returns(EmptyDict)) =>
                   /\ returned = BuiltIn(ext, call.content)
                   /\ ext \in {Ext("rs"), Ext("txt")} => returned = Returns(EmptyDict)

\* a Python file for which ast-grep finds a function while the built-in
\* extractor would give a bundle with imports: the result is that of ast-grep
C4_Witness ==
    /\ SelectorCalled
    /\ Suffix(call.file_path) = Ext("py")
    /\ Yields(extract_with_astgrep(Ext("py"), call.sg))
    /\ Has(extract_python_signatures(call.content), "imports")
    /\ HasReturned
    /\ ~Has(returned.value, "imports")

\* C5: extract_signatures_auto never raises: whatever the file, the tools
\* and the built-in extractors do, the call returns a result.
C5_SelectorNeverRaises == SelectorCalled => HasReturned

(***************************************************************************)
(* Properties of extract_python_signatures                                 *)
(***************************************************************************)
PythonExtracted == call.fn = "extract_python_signatures" /\ HasReturned

\* a class header at indentation 0 whose base list names an enum
IsEnumHeader(line) ==
    /\ line.kind = "class"
    /\ line.indent = 0
    /\ "enum" \in UNION {WordsIn(line.bases[k]) : k \in DOMAIN line.bases}

\* the index of the first line after line i that stands at indentation 0
\* and is neither blank nor a comment; one past the end when there is none
RECURSIVE BlockEnd(_, _)
BlockEnd(lines, i) ==
    IF i + 1 > Len(lines) THEN i + 1
    ELSE IF lines[i + 1].indent = 0 /\ lines[i + 1].kind \notin {"blank", "comment"} THEN i + 1
    ELSE BlockEnd(lines, i + 1)

\* the names of the upper-case lines that stand directly under the class
\* header at line i: those at the indentation of the first line of its body
DirectMembers(lines, i) ==
    LET block == SelectSeq(SubSeq(lines, i + 1, BlockEnd(lines, i) - 1),
                           LAMBDA l : l.kind \notin {"blank", "comment"})
        members == SelectSeq(block, LAMBDA l : /\ l.kind \in {"const", "enum_member"}
                                               /\ l.indent = block[1].indent)
    IN  [k \in DOMAIN members |-> members[k].name]

\* the class header at line i is the last one of its name
LastHeader(lines, i) ==
    \A k \in DOMAIN lines :
        (k > i /\ lines[k].kind = "class" /\ lines[k].indent = 0) => lines[k].name # lines[i].name

\* C11: every class at indentation 0 whose base list names an enum is in the
\* enums map under its name, with exactly the fields values and doc, its
\* values being the upper-case member names of the class in source order,
\* and it is not under classes.
C11_EnumRelocated ==
    PythonExtracted =>
        \A i \in DOMAIN call.content :
            (IsEnumHeader(call.content[i]) /\ LastHeader(call.content, i)) =>
                LET name == call.content[i].name
                IN  /\ Has(returned.value, "enums")
                    /\ Has(returned.value.enums, name)
                    /\ DOMAIN returned.value.enums[name] = {"values", "doc"}
                    /\ returned.value.enums[name].values = DirectMembers(call.content, i)
                    /\ ~Has(returned.value.classes, name)

(***************************************************************************)
(* Properties of extract_shell_signatures                                  *)
(***************************************************************************)
ShellExtracted == call.fn = "extract_shell_signatures" /\ HasReturned

IsShFunction(line) == line.kind \in {"func1", "func2"}

\* the signature of a function record, bare or full
SignatureOf(rec) == IF IsDict(rec) THEN rec.signature ELSE rec.str

\* the lines of the function declared at line j, from the declaration to the
\* line with the "}" that closes its body
RECURSIVE DeclaredBody(_, _, _)
DeclaredBody(lines, j, brace_count) ==
    IF j > Len(lines) THEN <<>>
    ELSE LET count == brace_count + lines[j].opens - lines[j].closes
         IN  IF lines[j].closes > 0 /\ count <= 0 THEN <<lines[j]>>
             ELSE <<lines[j]>> \o DeclaredBody(lines, j + 1, count)

\* the positional parameters the function declared at line i refers to
ReferencedParams(lines, i) ==
    LET body == DeclaredBody(lines, i, 0)
    IN  UNION {Range(body[k].params) : k \in DOMAIN body}

\* C12: the signature of a shell function whose body refers to positional
\* parameters lists the placeholders $1, ${2}, ... up to the highest index
\* referred to; "run() { echo $1 $2; }" on one line gives "($1 ${2})".
C12_ShellParameters ==
    ShellExtracted =>
        \A i \in DOMAIN call.content :
            LET line == call.content[i]
                later == {k \in DOMAIN call.content :
                             k > i /\ IsShFunction(call.content[k])
                                   /\ call.content[k].name = line.name}
                referenced == {p.num : p \in ReferencedParams(call.content, i)}
            IN  (IsShFunction(line) /\ later = {} /\ referenced \ {0} # {}) =>
                    /\ Has(returned.value.functions, line.name)
                    /\ SignatureOf(returned.value.functions[line.name])
                           = ShSignature(<<Max(referenced)>>)

(***************************************************************************)
(* The child processes of the engine selector.  _which, _astgrep_run and   *)
(* extract_solidity_with_rg call subprocess.run without a timeout          *)
(* argument: the call starts the child and waits until the child exits.    *)
(* When the child exits is up to the child.                                *)
(***************************************************************************)
MaxProbed == 2

\* subprocess.run(['bash', '-lc', 'command -v name']) of _which (line 1284)
Which(name) == [run |-> "command -v", name |-> name]

\* subprocess.run([cli, 'run', '-p', pattern, ...]) of _astgrep_run
\* (lines 1310-1315), for the k-th pattern of the extension
SgRun(k) == [run |-> "sg", pattern |-> k]

\* subprocess.run([rg, ...]) of extract_solidity_with_rg (lines 1659-1662
\* and 1669-1672)
RgRun(k) == [run |-> "rg", pattern |-> k]

\* _which(a) or _which(b): the second probe runs when the first finds nothing
Probes(a, b, installed) == IF a \in installed THEN <<Which(a)>> ELSE <<Which(a), Which(b)>>

\* lines 1291-1293
sg_cli(installed) == Probes("sg", "ast-grep", installed)

\* lines 1296-1298
rg_cli(installed) == Probes("rg", "ripgrep", installed)

\* the number of _astgrep_run calls in the branch of each extension of
\* extract_with_astgrep
AstGrepRuns ==
    (Ext("py") :> 3) @@ (Ext("js") :> 5) @@ (Ext("jsx") :> 5) @@ (Ext("ts") :> 5) @@
    (Ext("tsx") :> 5) @@ (Ext("go") :> 4) @@ (Ext("rs") :> 4) @@ (Ext("java") :> 2) @@
    (Ext("cs") :> 2) @@ (Ext("c") :> 1) @@ (Ext("h") :> 1) @@ (Ext("cc") :> 4) @@
    (Ext("cpp") :> 4) @@ (Ext("cxx") :> 4) @@ (Ext("hpp") :> 4)

\* The child processes extract_signatures_auto runs for a file, in order
\* (lines 1694-1716): for a .sol file the probe for ripgrep and, when it is
\* found, its two runs; for an extension ast-grep knows the probe for
\* ast-grep and, when it is found, a probe and a run for every pattern; for
\* any other extension none.
ChildProcesses(file_path, installed) ==
    LET ext == Suffix(file_path) IN
    IF ext = Ext("sol")
    THEN rg_cli(installed)
         \o (IF installed \cap {"rg", "ripgrep"} # {} THEN <<RgRun(1), RgRun(2)>> ELSE <<>>)
    ELSE IF Has(ASTGREP_LANG_BY_EXT, ext)
    THEN sg_cli(installed)
         \o (IF installed \cap {"sg", "ast-grep"} # {}
             THEN Concat([k \in 1..AstGrepRuns[ext] |-> sg_cli(installed) \o <<SgRun(k)>>])
             ELSE <<>>)
    ELSE <<>>

Installations == { {}, {"sg", "rg"}, {"ast-grep", "ripgrep"} }

\* build_index is at the first of at most MaxProbed code files; no child
\* process runs yet
InitEngines ==
    /\ iterable \in SeqsUpTo(SelPaths, MaxProbed)
    /\ idx = 1
    /\ file_count = 0
    /\ dir_count = 0
    /\ skipped_count = 0
    /\ files = EmptyDict
    /\ stats = [total_files |-> 0, total_directories |-> 0, fully_parsed |-> EmptyDict,
                listed_only |-> EmptyDict, markdown_files |-> 0]
    /\ documentation_map = {}
    /\ dependency_graph = EmptyDict
    /\ call_graph = EmptyDict
    /\ called_by_graph = EmptyDict
    /\ pc = "files"
    /\ call = [fn |-> "extract_signatures_auto", step |-> 1]
    /\ returned = NotReturned
    /\ tools \in {[installed |-> i, child |-> "none"] : i \in Installations}
    /\ frame = NoFrame
    /\ disk = NoDisk

\* the child processes of the file build_index is at
PlanOfFile == ChildProcesses(iterable[idx], tools.installed)

\* subprocess.run starts the child and waits for it
subprocess_run ==
    /\ idx <= Len(iterable)
    /\ tools.child = "none"
    /\ call.step <= Len(PlanOfFile)
    /\ tools' = [tools EXCEPT !.child = "running"]
    /\ call' = [fn |-> "subprocess.run", step |-> call.step, args |-> PlanOfFile[call.step]]
    /\ returned' = NotReturned
    /\ UNCHANGED <<buildVars, frame, disk>>

\* the child exits: a step of the child, not of the indexer
ChildExits ==
    /\ tools.child = "running"
    /\ tools' = [tools EXCEPT !.child = "exited"]
    /\ UNCHANGED <<buildVars, call, returned, frame, disk>>

\* subprocess.run returns the completed process
subprocess_returns ==
    /\ tools.child = "exited"
    /\ tools' = [tools EXCEPT !.child = "none"]
    /\ returned' = Returns(call.args)
    /\ call' = [fn |-> "extract_signatures_auto", step |-> call.step + 1]
    /\ UNCHANGED <<buildVars, frame, disk>>

\* extract_signatures_auto has run its last child process: build_index goes
\* on with the next file
NextFile ==
    /\ idx <= Len(iterable)
    /\ tools.child = "none"
    /\ call.step > Len(PlanOfFile)
    /\ idx' = idx + 1
    /\ call' = [fn |-> "extract_signatures_auto", step |-> 1]
    /\ returned' = NotReturned
    /\ UNCHANGED <<iterable, file_count, dir_count, skipped_count, files, stats,
                   documentation_map, dependency_graph, call_graph, called_by_graph, pc, tools, frame, disk>>

NextEngines ==
    \/ subprocess_run
    \/ ChildExits
    \/ subprocess_returns
    \/ NextFile

\* The steps of the indexer are taken when they can be; nothing makes a
\* child process exit.
SpecEngines ==
    /\ InitEngines
    /\ [][NextEngines]_vars
    /\ WF_vars(subprocess_run)
    /\ WF_vars(subprocess_returns)
    /\ WF_vars(NextFile)

\* C13: every run of an external tool is bounded by a timeout, so a child
\* process that never exits cannot stall the batch: build_index goes on from
\* every file to the next.
C13_BuildMovesOn ==
    \A i \in 1..MaxProbed : (idx = i /\ i <= Len(iterable)) ~> (idx > i)

(***************************************************************************)
(* Properties of the loop of build_index                                   *)
(***************************************************************************)
\* the loop was left before the end of the enumeration
Truncated == pc # "files" /\ idx <= Len(iterable)

\* C14: the number of code files in index['files'], the count of files and
\* stats.total_files never exceed MAX_FILES; the enumeration is cut only at
\* the cap, and the build then goes on to its end, where total_files is the
\* number of files counted.
C14_FileCap ==
    /\ file_count <= MAX_FILES
    /\ Cardinality(DOMAIN files) <= MAX_FILES
    /\ stats.total_files <= MAX_FILES
    /\ Truncated => file_count = MAX_FILES
    /\ Done => stats.total_files = file_count

\* C14, witness: the build ended after the cap cut an enumeration that held
\* one more code file to index.
C14_Witness ==
    /\ Done
    /\ Truncated
    /\ iterable[idx].kind = "file"
    /\ should_index_file(iterable[idx])
    /\ IsCode(iterable[idx].path)
    /\ stats.total_files = MAX_FILES
    /\ Cardinality(DOMAIN files) = MAX_FILES

(***************************************************************************)
(* Pass 1 of build_index over enumerations in any order.  Without Git the  *)
(* enumeration is list(root.rglob('*')) (project_index.py, line 175), in   *)
(* the order the file system lists the entries.                            *)
(***************************************************************************)
\* The orders of a sequence.
Shuffles(s) ==
    LET n == Len(s)
        perms == {p \in [1..n -> 1..n] : \A i, j \in 1..n : p[i] = p[j] => i = j}
    IN  {[i \in 1..n |-> s[p[i]]] : p \in perms}

\* Extraction outcomes of the files of a shuffled tree.
OrderOutcomes ==
    { FnBundle(Id("run") :> CallsRec(<<Id("helper")>>)),
      [functions |-> EmptyDict, classes |-> EmptyDict, call_graph |-> EmptyDict,
       constants |-> (Id("LIMIT") :> "number")],
      ReadError }

InitOrders ==
    /\ \E sorted \in Iterables(OrderOutcomes) : iterable \in Shuffles(sorted)
    /\ InitIndex

\* build_index over trees enumerated in any order.
SpecOrders == InitOrders /\ [][Next]_vars

\* The graph pass (lines 365-397) has not rewritten the entries yet.
BeforeGraphPass == pc # "done"

MaxSites == 2

\* "print" is one of the exclude_keywords of the Python scanner, "catch" one
\* of the JavaScript scanner.
ScanNames == {Id("run"), Id("helper"), Id("print"), Id("catch")}

\* name( and obj.name( for every name
ScanSites == {Bare(n) : n \in ScanNames} \cup {Dotted(n) : n \in ScanNames}

Scanners == {"extract_function_calls_python", "extract_function_calls_javascript"}

InitScan ==
    /\ InitIdle
    /\ \E fn \in Scanners, body \in SeqsUpTo(ScanSites, MaxSites),
          all_functions \in SUBSET ScanNames :
           call = [fn |-> fn, body |-> body, all_functions |-> all_functions]

Call_extract_function_calls_python ==
    /\ Pending("extract_function_calls_python")
    /\ returned' = Returns(extract_function_calls_python(<<Stmt(0, call.body)>>,
                                                         call.all_functions))
    /\ UNCHANGED <<buildVars, call, tools, frame, disk>>

Call_extract_function_calls_javascript ==
    /\ Pending("extract_function_calls_javascript")
    /\ returned' = Returns(extract_function_calls_javascript(call.body, call.all_functions))
    /\ UNCHANGED <<buildVars, call, tools, frame, disk>>

NextScan ==
    \/ Call_extract_function_calls_python
    \/ Call_extract_function_calls_javascript

SpecScan == InitScan /\ [][NextScan]_vars

(***************************************************************************)
(* Properties of the call-site scanners                                    *)
(***************************************************************************)
ScannerCalled == call.fn \in Scanners /\ returned # NotReturned

ExcludeListOf(fn) ==
    IF fn = "extract_function_calls_python" THEN PY_EXCLUDE_KEYWORDS ELSE JS_EXCLUDE_KEYWORDS

\* The place of a name in the order of sorted().
PlaceOf(name) == CHOOSE i \in DOMAIN IdentifierOrder : Id(IdentifierOrder[i]) = name

\* Ascending without a repetition.
StrictlySorted(names) ==
    \A i, j \in DOMAIN names : i < j => PlaceOf(names[i]) < PlaceOf(names[j])

\* The names the body calls in the shape obj.name(
DottedNames(body) == {body[i].name : i \in {k \in DOMAIN body : body[k].dotted}}

\* C16 as stated: the list a scanner returns is sorted, has no duplicates,
\* holds only names of the known-symbol set, and holds no name of the
\* scanner's exclusion list, whatever the shape of the call.
C16_ScannerResult ==
    ScannerCalled =>
        /\ StrictlySorted(returned.value)
        /\ Range(returned.value) \subseteq call.all_functions
        /\ Range(returned.value) \cap ExcludeListOf(call.fn) = {}

\* C16 amended: the list a scanner returns is sorted, has no duplicates and
\* holds only names of the known-symbol set; a name of the exclusion list is
\* in it only when the body calls it in the shape obj.name( .
C16_ScannerResultButDotted ==
    ScannerCalled =>
        /\ StrictlySorted(returned.value)
        /\ Range(returned.value) \subseteq call.all_functions
        /\ Range(returned.value) \cap ExcludeListOf(call.fn) \subseteq DottedNames(call.body)

\* The JavaScript scanner met the plain call of run and then the dotted call
\* of catch, both known, and returned the two names sorted.
C16_Witness ==
    /\ ScannerCalled
    /\ call.fn = "extract_function_calls_javascript"
    /\ call.body = <<Bare(Id("run")), Dotted(Id("catch"))>>
    /\ call.all_functions = {Id("run"), Id("catch")}
    /\ returned.value = <<Id("catch"), Id("run")>>

(***************************************************************************)
(* Properties of the graph pass of build_index (lines 365-397)             *)
(***************************************************************************)
\* Some function or method record of the index calls the name.
CallerFound(name) == \E f \in AllRecords : name \in CallsOf(f.rec)

\* A record stored as the bare signature string.
IsBare(rec) == ~IsDict(rec)

\* What the graph pass makes of one record, given the record after the pass.
UpgradedOrKept(r, after) ==
    /\ IsBare(r.rec) =>
          /\ IsDict(after) <=> CallerFound(r.name)
          /\ IsDict(after) =>
                /\ DOMAIN after = {"signature", "called_by"}
                /\ after.signature = r.rec.str
    /\ ~CallerFound(r.name) => after = r.rec
    /\ CallerFound(r.name) => IsDict(after) /\ Has(after, "called_by")
    /\ IsDict(r.rec) =>
          \A k \in DOMAIN r.rec \ {"called_by"} : Has(after, k) /\ after[k] = r.rec[k]

\* C17: the graph pass turns a function or method record stored as a bare
\* signature string into a full record exactly when some record of the index
\* calls its name; the signature of the full record is the original string;
\* and a record whose name nobody calls is the same after the pass as before.
\* The pass adds and removes no record.
C17_BareSignatureUpgrade ==
    [][pc = "called_by" =>
          /\ {[file |-> r.file, caller |-> r.caller] : r \in AllRecords'}
                = {[file |-> r.file, caller |-> r.caller] : r \in AllRecords}
          /\ \A r \in AllRecords : \A a \in AllRecords' :
                (a.file = r.file /\ a.caller = r.caller) => UpgradedOrKept(r, a.rec)]_vars

IsUpgraded(rec) == IsDict(rec) /\ DOMAIN rec = {"signature", "called_by"}

\* The graph pass is over: the bare record of a function and the bare record
\* of a method have become full records, and the full record of a method that
\* nobody calls has no called_by.
C17_Witness ==
    /\ Done
    /\ \E p \in DOMAIN files : \E r \in FunctionRecords(p) : IsUpgraded(r.rec)
    /\ \E p \in DOMAIN files : \E r \in MethodRecords(p) : IsUpgraded(r.rec)
    /\ \E r \in AllRecords : IsDict(r.rec) /\ ~Has(r.rec, "called_by")

(***************************************************************************)
(* Properties of the dependency graph of build_index (lines 278-323)       *)
(***************************************************************************)
RECURSIVE LeadingUpLevels(_)
\* The number of ".." segments an import path begins with.
LeadingUpLevels(parts) ==
    IF parts # <<>> /\ parts[1] = DotDot THEN 1 + LeadingUpLevels(Tail(parts)) ELSE 0

\* The stem of a ../ import when only its leading ".." segments go up and the
\* rest of the path is appended as it is.
LeadingStem(file_path, imp) ==
    LET file_dir == PathParent(PathParts(file_path))
        parts == Split(imp, "/")
        up_levels == LeadingUpLevels(parts)
        remainder == Join(SubSeq(parts, up_levels + 1, Len(parts)), "/")
    IN  IF remainder # <<>> THEN PathStr(PathJoin(ParentN(file_dir, up_levels), remainder))
        ELSE PathStr(ParentN(file_dir, up_levels))

IsParentRelative(imp) == StartsWith(imp, <<".", ".", "/">>)

\* What the imports of a file add to its dependencies when the ../ imports
\* are resolved from their leading ".." segments alone.
DependenciesFromLeading(p) ==
    IF Truthy(files[p], "imports")
    THEN Concat([i \in 1..Len(files[p].imports) |->
                    IF IsParentRelative(files[p].imports[i])
                    THEN FirstCandidate(LeadingStem(p, files[p].imports[i]), DOMAIN files, 1)
                    ELSE ResolveImport(p, files[p].imports[i], DOMAIN files)])
    ELSE <<>>

\* C18: once the dependency graph is built, an import that begins with ../
\* has been resolved by going up one directory per leading ".." segment from
\* the directory of the importing file and appending the rest of the import
\* unchanged; a ".." after another segment does not count as a level up.
C18_LeadingUpLevelsOnly ==
    AfterDeps => \A p \in DOMAIN files : DependenciesOf(p) = DependenciesFromLeading(p)

\* The import strings of a file that do not begin with a dot.
ExternalImports(p) ==
    IF Truthy(files[p], "imports")
    THEN {imp \in Range(files[p].imports) : ~StartsWith(imp, <<".">>)}
    ELSE {}

\* C19: once the dependency graph is built, every entry of the dependency
\* list of a file is a key of index['files'] or one of the file's import
\* strings that do not begin with '.', as the file has it; and every key of
\* the dependency graph is an indexed file with at least one entry.
C19_DependencyEntries ==
    AfterDeps =>
        /\ DOMAIN dependency_graph \subseteq DOMAIN files
        /\ \A p \in DOMAIN dependency_graph :
              /\ dependency_graph[p] # <<>>
              /\ \A d \in Range(dependency_graph[p]) :
                    d \in DOMAIN files \/ d \in ExternalImports(p)

RECURSIVE Encloser(_, _, _)
\* The line the block of line i hangs from: the nearest line before it, from
\* line k upwards, that is indented less and is neither blank nor a comment;
\* 0 when there is none.
Encloser(lines, i, k) ==
    IF k = 0 THEN 0
    ELSE IF lines[k].kind \notin {"blank", "comment"} /\ lines[k].indent < lines[i].indent
         THEN k
         ELSE Encloser(lines, i, k - 1)

IsDefOf(line, name) == line.kind = "def" /\ line.name = name

\* The def at line i stands directly in the body of a class header at
\* indentation 0 named class_name.
DirectMethodOf(lines, i, class_name) ==
    LET k == Encloser(lines, i, i - 1)
    IN  /\ k # 0
        /\ lines[k].kind = "class"
        /\ lines[k].indent = 0
        /\ lines[k].name = class_name

MethodsOf(class_info) == Get(class_info, "methods", EmptyDict)

\* C20: a name is among the methods of a class of the bundle only when the
\* content has a def of that name directly in the body of a top-level class of
\* that name; a def at indentation 0 is among the functions, and nothing else
\* is; so a def at any other position, such as a method of a class nested in
\* a class, is in no methods map and not in functions.
C20_FunctionPlacement ==
    PythonExtracted =>
        LET lines == call.content
            result == returned.value
        IN  /\ \A c \in DOMAIN result.classes : \A m \in DOMAIN MethodsOf(result.classes[c]) :
                  \E i \in DOMAIN lines : IsDefOf(lines[i], m) /\ DirectMethodOf(lines, i, c)
            /\ \A f \in DOMAIN result.functions :
                  \E i \in DOMAIN lines : IsDefOf(lines[i], f) /\ lines[i].indent = 0
            /\ \A i \in DOMAIN lines :
                  (lines[i].kind = "def" /\ lines[i].indent = 0
                     /\ (lines[i].name \notin SKIP_DUNDER \/ lines[i].name = Id("__init__")))
                  => Has(result.functions, lines[i].name)

(***************************************************************************)
(* The while loop of extract_python_signatures (lines 224-499), one turn   *)
(* at a time.  frame holds the locals of the loop: the line index i and    *)
(* the rest of the locals, st.                                             *)
(***************************************************************************)
MaxLoopLines == 3

LoopLines ==
    { Class(0, Id("K"), <<>>),
      Class(0, Id("Color"), <<Id("Enum")>>),
      Class(0, Id("Base"), <<Id("ABCMeta")>>),
      Class(0, Id("B"), <<Id("ValueError")>>),
      Class(4, Id("Base"), <<>>),
      Decorator(4, Id("cached")),
      Def(0, Id("run"), FALSE, <<>>, <<>>),
      Def(4, Id("m"), FALSE, <<"self">>, <<>>),
      Def(4, Id("__repr__"), FALSE, <<"self">>, <<>>),
      DefOpen(0, Id("helper"), FALSE),
      SigEnd(4, <<"x">>, <<"int">>),
      Const(0, Id("LIMIT"), <<"3">>),
      TypeAlias(0, Id("A"), <<"List", "[", "int", "]">>),
      Annotated(0, Id("count"), TRUE) }

InitPyLoop ==
    /\ IdleBuild
    /\ disk = NoDisk
    /\ \E content \in SeqsUpTo(LoopLines, MaxLoopLines) :
          /\ call = [fn |-> "extract_python_signatures", content |-> content]
          /\ frame = [running |-> TRUE, i |-> 1, st |-> PyStart(content)]

\* lines 225-499: one turn of the while loop
PyWhileTurn ==
    /\ Pending("extract_python_signatures")
    /\ frame.running
    /\ frame.i <= Len(call.content)
    /\ LET turn == PyTurn(call.content, frame.i, frame.st, AllFunctionNames(call.content))
       IN  frame' = [running |-> TRUE, i |-> turn.i, st |-> turn.st]
    /\ UNCHANGED <<buildVars, call, returned, tools, disk>>

\* lines 501-537: the loop is over, the extractor cleans up and returns
PyReturn ==
    /\ Pending("extract_python_signatures")
    /\ frame.running
    /\ frame.i > Len(call.content)
    /\ returned' = Returns(PyFinish(frame.st))
    /\ frame' = [frame EXCEPT !.running = FALSE]
    /\ UNCHANGED <<buildVars, call, tools, disk>>

NextPyLoop ==
    \/ PyWhileTurn
    \/ PyReturn

SpecPyLoop == InitPyLoop /\ [][NextPyLoop]_vars /\ WF_vars(NextPyLoop)

\* The loop gives what the extractor gives when it is computed in one go.
PyLoopAgrees ==
    (call.fn = "extract_python_signatures" /\ HasReturned) =>
        returned.value = extract_python_signatures(call.content)

(***************************************************************************)
(* Properties of the while loop of extract_python_signatures               *)
(***************************************************************************)
InPyLoop == call.fn = "extract_python_signatures" /\ frame.running

PyLoopReturned == call.fn = "extract_python_signatures" /\ HasReturned

\* The names of the class headers at indentation 0 among the first n lines.
TopLevelHeaders(lines, n) ==
    {lines[k].name : k \in {j \in 1..n : lines[j].kind = "class" /\ lines[j].indent = 0}}

\* The loop is at a class header that is indented.
AtNestedClass ==
    /\ InPyLoop
    /\ frame.i <= Len(call.content)
    /\ call.content[frame.i].kind = "class"
    /\ call.content[frame.i].indent > 0

\* C21: in every turn of the loop the keys of classes are names of class
\* headers at indentation 0 that the loop has passed, and a current class that
\* is set is a key of classes; the keys of classes and of enums of the bundle
\* returned are names of class headers at indentation 0; and the turn at an
\* indented class header puts the header on the class stack and changes
\* neither the result nor the current class.
C21_TopLevelClassesOnly ==
    /\ [](InPyLoop =>
            /\ DOMAIN frame.st.result.classes
                  \subseteq TopLevelHeaders(call.content, frame.i - 1)
            /\ frame.st.current_class # <<>> =>
                  frame.st.current_class \in DOMAIN frame.st.result.classes)
    /\ [](PyLoopReturned =>
            DOMAIN returned.value.classes \cup DOMAIN Get(returned.value, "enums", EmptyDict)
               \subseteq TopLevelHeaders(call.content, Len(call.content)))
    /\ [][AtNestedClass =>
            /\ frame'.st.result = frame.st.result
            /\ frame'.st.current_class = frame.st.current_class
            /\ frame'.st.current_class_indent = frame.st.current_class_indent
            /\ frame'.st.class_stack # <<>>
            /\ frame'.st.class_stack[Len(frame'.st.class_stack)]
                  = <<call.content[frame.i].name, call.content[frame.i].indent>>]_vars

\* The loop has passed the header of class K and, inside it, the header of a
\* nested class: both are on the class stack, K is the current class and the
\* only key of classes.
C21_Witness ==
    /\ InPyLoop
    /\ frame.i = 3
    /\ call.content[1] = Class(0, Id("K"), <<>>)
    /\ call.content[2] = Class(4, Id("Base"), <<>>)
    /\ frame.st.class_stack = <<<<Id("K"), 0>>, <<Id("Base"), 4>>>>
    /\ frame.st.current_class = Id("K")
    /\ DOMAIN frame.st.result.classes = {Id("K")}

\* The loop is at the line of a function or class definition.
AtDefinition ==
    /\ InPyLoop
    /\ frame.i <= Len(call.content)
    /\ call.content[frame.i].kind \in {"def", "class"}

\* C22: the turn of the loop at a function or class definition line, a nested
\* class and a skipped dunder method among them, leaves the queue of pending
\* decorators empty, so that no decorator is left for a later definition.
C22_DecoratorsConsumed ==
    [][AtDefinition => frame'.st.pending_decorators = <<>>]_vars

\* No line of the content is taken into the signature of a def above it.
NoOpenDef(lines) == \A k \in DOMAIN lines : lines[k].kind # "def_open"

\* C23: every line at indentation 0 that is a type alias, an upper-case
\* constant or a typed variable with a value is recorded as such in the bundle
\* returned; among them the upper-case assignment on the line that follows a
\* class body.
C23_ModuleLevelRecorded ==
    (PyLoopReturned /\ NoOpenDef(call.content)) =>
        \A i \in DOMAIN call.content :
            LET line == call.content[i]
                bundle == returned.value
            IN  line.indent = 0 =>
                   /\ line.kind = "type_alias" =>
                         Has(Get(bundle, "type_aliases", EmptyDict), line.name)
                   /\ line.kind = "const" =>
                         Has(Get(bundle, "constants", EmptyDict), line.name)
                   /\ (line.kind = "annotated" /\ line.has_value /\ ~IsPrivate(line.name)) =>
                         line.name \in Range(Get(bundle, "variables", <<>>))

\* The words the lower-cased names of the bases of a class header contain.
BaseWords(line) == UNION {WordsIn(line.bases[k]) : k \in DOMAIN line.bases}

\* The kind of a class by the words its base names contain.
KindByWords(line) ==
    IF "enum" \in BaseWords(line) THEN "enum"
    ELSE IF "exception" \in BaseWords(line) \/ "error" \in BaseWords(line) THEN "exception"
    ELSE IF "abc" \in BaseWords(line) \/ "protocol" \in BaseWords(line) THEN "abstract"
    ELSE "plain"

\* The kind the bundle gives the class of a name.
KindInBundle(bundle, name) ==
    IF Has(Get(bundle, "enums", EmptyDict), name) THEN "enum"
    ELSE IF ~Has(bundle.classes, name) THEN "none"
    ELSE IF Get(bundle.classes[name], "type", "") = "exception" THEN "exception"
    ELSE IF Get(bundle.classes[name], "abstract", FALSE) THEN "abstract"
    ELSE "plain"

\* C24: the kind of every class of the bundle is the one that the words in
\* its lower-cased base names give: enum for 'enum', else exception for
\* 'exception' or 'error', else abstract for 'abc' or 'protocol' (ABCMeta
\* among them), else plain.
C24_KindBySubstring ==
    (PyLoopReturned /\ NoOpenDef(call.content)) =>
        \A i \in DOMAIN call.content :
            (/\ call.content[i].kind = "class"
             /\ call.content[i].indent = 0
             /\ LastHeader(call.content, i)) =>
                KindInBundle(returned.value, call.content[i].name) = KindByWords(call.content[i])

(***************************************************************************)
(* extract_shell_signatures on a function with a long body: "run()", "{",  *)
(* then command lines, one of which calls run and refers to $1, then "}"   *)
(* or the end of the file.                                                 *)
(***************************************************************************)
MaxBody == 22

\* The body of n command lines with the call of run and $1 in line p.
LongBody(n, p) ==
    [k \in 1..n |-> IF k = p THEN Cmd(2, {Id("run")}, 0, 0, <<Param(1)>>)
                    ELSE Cmd(2, {}, 0, 0, <<>>)]

LongFunction(n, p, closed) ==
    <<Func1(0, Id("run")), Cmd(0, {}, 1, 0, <<>>)>> \o LongBody(n, p)
       \o (IF closed THEN <<Cmd(0, {}, 0, 1, <<>>)>> ELSE <<>>)

InitWindow ==
    /\ InitIdle
    /\ \E n \in 1..MaxBody, closed \in BOOLEAN : \E p \in 1..n :
          call = [fn |-> "extract_shell_signatures", content |-> LongFunction(n, p, closed),
                  at |-> p + 2]

NextWindow == Call_extract_shell_signatures

SpecWindow == InitWindow /\ [][NextWindow]_vars

\* The record of run in the bundle returned.
RunRecord == returned.value.functions[Id("run")]

\* C25: the scans of a function's body examine a bounded window of lines
\* after its header: the scan for calls reads no line that lies beyond the
\* window of the scan for positional parameters, so a line whose $1 is too far
\* from the header to be seen gives no call either.
C25_BoundedScanWindows ==
    (call.fn = "extract_shell_signatures" /\ HasReturned /\ Has(call, "at")) =>
        (Id("run") \in Range(Get(RunRecord, "calls", <<>>))
            => SignatureOf(RunRecord) = ShSignature(<<1>>))

\* C26: every turn of the while loop leaves the line index i greater than it
\* found it, and never beyond one past the last line, also when a signature
\* spans several lines (i goes to the line after its last line) and when the
\* signature never ends (the header is skipped); so on every content the loop
\* ends and the extractor returns.
C26_LoopTerminates ==
    /\ [][InPyLoop => (frame'.running => frame'.i > frame.i)]_vars
    /\ [](InPyLoop => frame.i <= Len(call.content) + 1)
    /\ <>PyLoopReturned

\* The loop went from a def whose signature ends on the next line to the line
\* after that signature, where a def stands whose signature never ends.
C26_Witness ==
    /\ InPyLoop
    /\ frame.i = 3
    /\ Len(call.content) = 3
    /\ call.content[1].kind = "def_open"
    /\ call.content[2].kind = "sig_end"
    /\ call.content[3].kind = "def_open"
    /\ Has(frame.st.result.functions, Id("helper"))

(***************************************************************************)
(* The statistics of build_index                                           *)
(***************************************************************************)
RECURSIVE SumOfCounts(_)
\* sum(d.values()) of a dict of counts
SumOfCounts(d) ==
    IF DOMAIN d = {} THEN 0
    ELSE LET k == CHOOSE x \in DOMAIN d : TRUE
         IN  d[k] + SumOfCounts(Del(d, k))

ParsedEntries == {p \in DOMAIN files : files[p].parsed}

MaxRuns == 2

\* line 61, as far as the model's projects go
important_docs == {"README.md", "API.md"}

\* A PROJECT_INDEX.json.
IndexFile(readable, structure, refresh, old, doc_map, dirs, hooked) ==
    [exists |-> TRUE, readable |-> readable, project_structure |-> structure,
     tree_needs_refresh |-> refresh, old |-> old, documentation_map |-> doc_map,
     total_directories |-> dirs, hook_count |-> hooked[1], total_count |-> hooked[2]]

NoIndexFile ==
    [IndexFile(FALSE, FALSE, FALSE, FALSE, {}, 0, <<0, 0>>) EXCEPT !.exists = FALSE]

\* lines 152-174: the minimal index of run_reindex, just written.
MinimalIndex == IndexFile(TRUE, TRUE, FALSE, FALSE, {}, 0, <<0, 0>>)

\* lines 21-36
check_index_features(index) ==
    IF ~index.readable THEN <<TRUE, "Cannot read index file">>
    ELSE IF ~index.project_structure THEN <<TRUE, "Missing project structure tree">>
    ELSE IF index.tree_needs_refresh THEN <<TRUE, "Directory tree needs refresh">>
    ELSE <<FALSE, None>>

\* lines 39-49, with the threshold of a week that main passes
check_index_staleness(index) == index.old

\* lines 52-70
check_missing_documentation(index, project) ==
    IF ~index.readable THEN TRUE
    ELSE \E doc \in important_docs : doc \in project.docs /\ doc \notin index.documentation_map

\* lines 73-95
check_structural_changes(index, project) ==
    IF ~index.readable THEN FALSE
    ELSE IF index.total_directories > 0
         THEN LET diff == IF project.dirs >= index.total_directories
                          THEN project.dirs - index.total_directories
                          ELSE index.total_directories - project.dirs
              IN  5 * diff > index.total_directories
         ELSE FALSE

\* lines 98-114
count_hook_updates(index) ==
    IF ~index.readable THEN <<0, 0>> ELSE <<index.hook_count, index.total_count>>

\* lines 212-242: whether main reindexes, and why
Decision(project) ==
    LET index == project.index
        features == check_index_features(index)
        counts == count_hook_updates(index)
    IN  IF features[1] THEN [needs_reindex |-> TRUE, reason |-> features[2]]
        ELSE IF check_index_staleness(index)
        THEN [needs_reindex |-> TRUE, reason |-> "Index is over a week old"]
        ELSE IF check_missing_documentation(index, project)
        THEN [needs_reindex |-> TRUE, reason |-> "New documentation files detected"]
        ELSE IF check_structural_changes(index, project)
        THEN [needs_reindex |-> TRUE, reason |-> "Directory structure changed significantly"]
        ELSE IF counts[2] > 20 /\ 2 * counts[1] > counts[2]
        THEN [needs_reindex |-> TRUE, reason |-> "Many incremental updates"]
        ELSE [needs_reindex |-> FALSE, reason |-> ""]

\* project_index.py, lines 569-584: what a run of the indexer leaves on disk.
\* It writes PROJECT_INDEX.dsl, and PROJECT_INDEX.json is none of its files.
project_index_main(project) == [project EXCEPT !.dsl = TRUE]

\* lines 117-180: the disk after run_reindex and what it returns, given the
\* exit status of the child process and whether the index file can be written.
run_reindex(project, returncode, writable) ==
    IF project.script \in {"project", "system"}
    THEN IF returncode = 0
         THEN [disk |-> project_index_main(project), ok |-> TRUE]
         ELSE [disk |-> project, ok |-> FALSE]
    ELSE IF writable
         THEN [disk |-> [project EXCEPT !.index = MinimalIndex], ok |-> TRUE]
         ELSE [disk |-> project, ok |-> FALSE]

\* What main reports of a run.
Ran(needs_reindex, reason, reindexed) ==
    Returns([needs_reindex |-> needs_reindex, reason |-> reason, reindexed |-> reindexed])

\* lines 183-251: one run of the hook
Hook_main ==
    /\ call.fn = "main"
    /\ call.runs < MaxRuns
    /\ call' = [call EXCEPT !.runs = @ + 1]
    /\ IF ~disk.index.exists
       THEN returned' = Ran(FALSE, "", FALSE) /\ disk' = disk
       ELSE LET decision == Decision(disk)
            IN  IF decision.needs_reindex
                THEN \E returncode \in {0, 1}, writable \in BOOLEAN :
                        LET after == run_reindex(disk, returncode, writable)
                        IN  /\ disk' = after.disk
                            /\ returned' = Ran(TRUE, decision.reason, after.ok)
                ELSE returned' = Ran(FALSE, "", FALSE) /\ disk' = disk
    /\ UNCHANGED <<buildVars, tools, frame>>

\* The index files of the model's projects.
IndexFiles ==
    {NoIndexFile} \cup
    {IndexFile(readable, structure, refresh, old, doc_map, dirs, hooked) :
        readable \in BOOLEAN, structure \in BOOLEAN, refresh \in BOOLEAN, old \in BOOLEAN,
        doc_map \in SUBSET {"README.md"}, dirs \in {0, 2},
        hooked \in {<<0, 0>>, <<11, 21>>}}

InitHook ==
    /\ IdleBuild
    /\ frame = NoFrame
    /\ call = [fn |-> "main", runs |-> 0]
    /\ \E index \in IndexFiles, script \in {"project", "system", "none"},
          docs \in SUBSET {"README.md"}, dirs \in {0, 2} :
          disk = [present |-> TRUE, index |-> index, dsl |-> FALSE, script |-> script,
                  docs |-> docs, dirs |-> dirs]

NextHook == Hook_main

SpecHook == InitHook /\ [][NextHook]_vars

\* the step is a run of main after a run that reindexed with success
SecondRunAfterReindex ==
    /\ HasReturned
    /\ returned.value.needs_reindex
    /\ returned.value.reindexed
    /\ call'.runs = call.runs + 1

\* C28: a run of main that follows a run which reindexed with success, with no
\* change to the project in between, does not reindex again.
C28_ReindexReachesFixpoint ==
    [][SecondRunAfterReindex => ~returned'.value.needs_reindex]_vars

\* What holds all the same: when no project_index.py is found and the project
\* has none of the important documentation files, the minimal index that
\* run_reindex writes ends the reindexing.
C28_MinimalIndexIsFixpoint ==
    [][(SecondRunAfterReindex /\ disk.script = "none" /\ disk.docs = {})
          => ~returned'.value.needs_reindex]_vars

(***************************************************************************)
(* The PostToolUse hook (update_index.py).  Here the variable disk holds    *)
(* PROJECT_INDEX.json as a dict (when the file exists and is JSON), call    *)
(* holds the arguments of update_file_in_index with whether the edited file *)
(* can be read, what it holds, and whether index_utils was importable when  *)
(* the hook started,                                                        *)
(* frame holds the dict named index when the call returns, and returned     *)
(* holds what the call wrote to stderr.                                     *)
(***************************************************************************)
\* lines 42-60: PARSEABLE_LANGUAGES of the hook
HookLanguages(utils) ==
    IF utils THEN PARSEABLE_LANGUAGES
    ELSE (<<".", "py">> :> "python") @@ (<<".", "js">> :> "javascript") @@
         (<<".", "ts">> :> "typescript") @@ (<<".", "jsx">> :> "javascript") @@
         (<<".", "tsx">> :> "typescript")

\* os.path.relpath(path, start) of a path below start
relpath(path, start) ==
    IF StartsWith(path, start \o <<"/">>) THEN DropFirst(path, Len(start) + 1)
    ELSE <<"..", "/">> \o path

\* d[k] of a dict: the value, or a KeyError
KeysMissing(d, keys) == {k \in keys : ~Has(d, k)}

\* lines 122-134: what the extraction gives, a bundle or an exception
HookExtracted(file_ext, content, utils) ==
    IF utils
    THEN IF file_ext = <<".", "py">> THEN Returns(extract_python_signatures(content))
         ELSE IF file_ext \in {<<".", "js">>, <<".", "ts">>, <<".", "jsx">>, <<".", "tsx">>}
         THEN Returns(extract_javascript_signatures(content))
         ELSE IF file_ext \in {<<".", "sh">>, <<".", "bash">>}
         THEN extract_shell_signatures(content)
         ELSE Returns([functions |-> EmptyDict, classes |-> EmptyDict])
    ELSE Returns([functions |-> EmptyDict, classes |-> EmptyDict])

\* lines 140-153: the new entry of the file
HookFileInfo(file_path, file_ext, extracted, utils, now) ==
    LET base == [language |-> HookLanguages(utils)[file_ext],
                 parsed |-> DOMAIN extracted.functions # {} \/ DOMAIN extracted.classes # {},
                 functions |-> extracted.functions,
                 classes |-> extracted.classes,
                 updated_by_hook |-> TRUE,
                 updated_at |-> now]
        file_purpose == IF utils THEN infer_file_purpose(file_path) ELSE None
    IN  IF file_purpose # None THEN Put(base, "purpose", file_purpose) ELSE base

\* index.setdefault('files', {}), lines 104-105 and 137-138
WithFiles(index) == IF Has(index, "files") THEN index ELSE Put(index, "files", EmptyDict)

Quiet == ""
ErrorUpdating == "Error updating index"
Updated == "Updated in PROJECT_INDEX.json"

\* What a call leaves: the index file, the dict named index, and stderr.
Left(file, memory, stderr) == [file |-> file, memory |-> memory, stderr |-> stderr]

Written(index, stderr) == Left([exists |-> TRUE, readable |-> TRUE, data |-> index], index, stderr)

\* lines 83-99: a markdown file, with the extractor at hand
HookMarkdown(file, rel_path, readable, content) ==
    LET index == file.data
        mapped == IF Has(index, "documentation_map") THEN index
                  ELSE Put(index, "documentation_map", EmptyDict)
        noted == Put(mapped, "documentation_map",
                     Put(mapped["documentation_map"], rel_path, content))
        counted == IF Has(noted, "stats")
                   THEN Put(noted, "stats", Incr(noted["stats"], "markdown_files"))
                   ELSE noted
    IN  IF ~readable THEN Written(index, Quiet)
        ELSE IF content.sections THEN Written(counted, Quiet)
        ELSE Written(index, Quiet)

\* lines 103-113: a file whose extension is not in PARSEABLE_LANGUAGES
HookListedOnly(file, rel_path, file_ext) ==
    LET index == WithFiles(file.data)
        entry == IF Has(index["files"], rel_path)
                 THEN Put(index["files"][rel_path], "updated", TRUE)
                 ELSE [language |-> IF Len(file_ext) > 0 THEN file_ext[2] ELSE "unknown",
                       parsed |-> FALSE]
    IN  Left(file, Put(index, "files", Put(index["files"], rel_path, entry)), Quiet)

\* lines 136-161: the entry of the file is built and stored, and the index
\* written, unless the extraction or a lookup in what it gave raised
HookStore(file, file_path, rel_path, file_ext, extracted, utils, now) ==
    LET index == WithFiles(file.data)
    IN  IF "raised" \in DOMAIN extracted THEN Left(file, file.data, ErrorUpdating)
        ELSE IF KeysMissing(extracted.value, {"functions", "classes"}) # {}
        THEN Left(file, index, ErrorUpdating)
        ELSE Written(Put(index, "files",
                         Put(index["files"], rel_path,
                             HookFileInfo(file_path, file_ext, extracted.value, utils, now))),
                     Updated)

\* lines 115-161: a file whose extension is in PARSEABLE_LANGUAGES
HookParseable(file, file_path, rel_path, file_ext, readable, content, utils, now) ==
    IF ~readable THEN Left(file, file.data, Quiet)
    ELSE CHOOSE left \in { HookStore(file, file_path, rel_path, file_ext, extracted, utils, now) :
                              extracted \in {HookExtracted(file_ext, content, utils)} } : TRUE

\* lines 63-164
update_file_in_index(file, file_path, project_root, readable, content, utils, now) ==
    LET rel_path == relpath(file_path, project_root)
        file_ext == Suffix(file_path)
    IN  IF ~file.exists THEN Left(file, EmptyDict, Quiet)
        ELSE IF ~file.readable THEN Left(file, EmptyDict, ErrorUpdating)
        ELSE IF ~Has(file.data, "project_structure")
        THEN Written(Put(file.data, "needs_full_reindex", TRUE), Quiet)
        ELSE IF file_ext \in MARKDOWN_EXTENSIONS /\ utils
        THEN HookMarkdown(file, rel_path, readable, content)
        ELSE IF ~Has(HookLanguages(utils), file_ext)
        THEN HookListedOnly(file, rel_path, file_ext)
        ELSE HookParseable(file, file_path, rel_path, file_ext, readable, content, utils, now)

Call_update_file_in_index ==
    /\ Pending("update_file_in_index")
    /\ \E left \in {update_file_in_index(disk.index, call.file_path, call.project_root,
                                         call.readable, call.content, call.utils, call.now)} :
           /\ disk' = [disk EXCEPT !.index = left.file]
           /\ frame' = [running |-> FALSE, index |-> left.memory]
           /\ returned' = Returns([stderr |-> left.stderr])
    /\ UNCHANGED <<buildVars, call, tools>>

\* The files the hook is called for, below the project root p.
EditedFiles ==
    { <<"p", "/", "run", ".", "sh">>, <<"p", "/", "a", "/", "lib", ".", "bash">>,
      <<"p", "/", "main", ".", "py">>, <<"p", "/", "app", ".", "js">>,
      <<"p", "/", "notes", ".", "txt">>, <<"p", "/", "Makefile">>,
      <<"p", "/", "README", ".", "md">> }

\* What an edited file may hold.
EditedContents(file_path) ==
      IF Suffix(file_path) \in MARKDOWN_EXTENSIONS THEN {[sections |-> b] : b \in BOOLEAN}
      ELSE IF Suffix(file_path) \in {<<".", "sh">>, <<".", "bash">>}
      THEN { <<>>, <<Cmd(0, {}, 0, 0, <<>>)>>,
             <<Func1OneLine(0, Id("run"), <<Param(1), Param(2)>>)>>,
             <<Func1(0, Id("setup")), Cmd(2, {}, 0, 0, <<LongParam>>)>> }
      ELSE IF Suffix(file_path) = <<".", "py">>
      THEN { <<>>, <<Def(0, Id("run"), FALSE, <<>>, <<>>)>>, <<Class(0, Id("K"), <<>>)>> }
      ELSE IF Suffix(file_path) = <<".", "js">>
      THEN { <<>>, <<JsFunction(Id("run"), <<>>, <<>>, FALSE, <<Bare(Id("run"))>>)>> }
      ELSE {<<>>}

ListedEntry(language) == [language |-> language, parsed |-> FALSE]

\* The index files the hook may find.
HookIndexFiles ==
    LET structure == "project_structure" :> TRUE
        counts == "stats" :> ("markdown_files" :> 0)
        some == (<<"notes", ".", "txt">> :> ListedEntry("txt")) @@
                (<<"run", ".", "sh">> :> ListedEntry("shell"))
    IN  { [exists |-> FALSE, readable |-> FALSE, data |-> EmptyDict],
          [exists |-> TRUE, readable |-> FALSE, data |-> EmptyDict] } \cup
        { [exists |-> TRUE, readable |-> TRUE, data |-> d] :
             d \in { "files" :> EmptyDict,
                     structure,
                     structure @@ counts,
                     structure @@ ("files" :> EmptyDict),
                     structure @@ ("files" :> some),
                     structure @@ counts @@ ("files" :> some) } }

InitUpdate ==
    /\ IdleBuild
    /\ frame = NoFrame
    /\ \E index \in HookIndexFiles : disk = [present |-> TRUE, index |-> index]
    /\ \E file_path \in EditedFiles, utils \in BOOLEAN, readable \in BOOLEAN :
          \E content \in EditedContents(file_path) :
             call = [fn |-> "update_file_in_index", file_path |-> file_path,
                     project_root |-> <<"p">>, readable |-> readable, content |-> content,
                     utils |-> utils, now |-> "now"]

NextUpdate == Call_update_file_in_index

SpecUpdate == InitUpdate /\ [][NextUpdate]_vars

UpdateReturned == call.fn = "update_file_in_index" /\ HasReturned

rel_path == relpath(call.file_path, call.project_root)

\* the call got past the checks of the index file (lines 67-78)
IndexAccepted ==
    disk.index.exists /\ disk.index.readable /\ Has(disk.index.data, "project_structure")

\* C29: with index_utils importable and an index that has a project_structure,
\* the call for a readable .sh or .bash file does not report an error, and the
\* index file then holds a fresh entry of the file: language shell,
\* updated_by_hook = True, and parsed as the extraction found functions.
C29_ShellFileUpdated ==
    ( /\ UpdateReturned
      /\ IndexAccepted
      /\ call.utils
      /\ Suffix(call.file_path) \in {<<".", "sh">>, <<".", "bash">>}
      /\ call.readable )
    => /\ returned.value.stderr # ErrorUpdating
       /\ Has(disk.index.data, "files")
       /\ Has(disk.index.data["files"], rel_path)
       /\ LET entry == disk.index.data["files"][rel_path]
          IN  /\ entry.language = "shell"
              /\ Has(entry, "updated_by_hook")
              /\ entry.updated_by_hook
              /\ entry.parsed = (DOMAIN entry.functions # {})

\* What holds all the same: the call for a readable .py or .js file leaves
\* such an entry.
C29_PythonFileUpdated ==
    ( /\ UpdateReturned
      /\ IndexAccepted
      /\ Suffix(call.file_path) \in {<<".", "py">>, <<".", "js">>}
      /\ call.readable )
    => /\ returned.value.stderr = Updated
       /\ Has(disk.index.data["files"], rel_path)
       /\ LET entry == disk.index.data["files"][rel_path]
          IN  /\ entry.language \in {"python", "javascript"}
              /\ entry.updated_by_hook
              /\ entry.parsed = (DOMAIN entry.functions # {} \/ DOMAIN entry.classes # {})

\* C30: when update_file_in_index returns, the index file holds the dict named
\* index as the call left it: every change the call made to it is on disk,
\* the new listed-only entry or the 'updated' mark of a file whose extension
\* is not in PARSEABLE_LANGUAGES included.
C30_ChangesPersisted ==
    UpdateReturned => frame.index = disk.index.data

\* What holds all the same: a call that reports no error for a markdown file
\* or for a file whose extension is in PARSEABLE_LANGUAGES leaves the index
\* file equal to the dict named index.
C30_WrittenPathsPersist ==
    ( /\ UpdateReturned
      /\ returned.value.stderr # ErrorUpdating
      /\ \/ Has(HookLanguages(call.utils), Suffix(call.file_path))
         \/ Suffix(call.file_path) \in MARKDOWN_EXTENSIONS /\ call.utils )
    => frame.index = disk.index.data

====
